---- MODULE Spec2Model ----
(***************************************************************************)
(* A model of the polymarket-trading-bot: the Order Gate and Position      *)
(* Ledger of BaseTradingBot, the ArbitrageBot and CopyTradingBot strategy  *)
(* loops, and the pure computations they rest on.                          *)
(*                                                                         *)
(* Decimal strings (Order.price, Order.size, Trade.price, ...) are records *)
(* [m, s]: the digits m with s of them after the decimal point, so "0.60"  *)
(* is [m |-> 60, s |-> 2] and "0.6" is [m |-> 6, s |-> 1].  A Big is its   *)
(* exact value counted in thousandths.                                     *)
(***************************************************************************)
EXTENDS Integers, Sequences, FiniteSets, TLC

VARIABLES
    bot,        \* the fields of one bot object (BaseTradingBot and its subclass)
    procs,      \* the activations of its async methods: ticks, start(), callers
    fnName,     \* pure-function specifications: the function applied last
    fnIn,       \* ... its input
    fnOut       \* ... its result

pureVars == <<fnName, fnIn, fnOut>>
botVars == <<bot, procs>>
vars == <<bot, procs, fnName, fnIn, fnOut>>

\* null / undefined, and a rejected promise (a thrown error)
Null == [tag |-> "null"]
Fail == [tag |-> "error"]

-----------------------------------------------------------------------------
(* big.js decimals and config/config.ts *)

Pow10(n) == CASE n = 0 -> 1 [] n = 1 -> 10 [] n = 2 -> 100 [] OTHER -> 1000

\* new Big(str): the exact value of a decimal string, in thousandths
Big(str) == str.m * Pow10(3 - str.s)

\* parseFloat(str): exact on strings of at most three decimals
ParseFloat(str) == str.m * Pow10(3 - str.s)

\* Big.prototype.toString(): the shortest decimal string of the value
BigToString(v) ==
    IF v % 1000 = 0 THEN [m |-> v \div 1000, s |-> 0]
    ELSE IF v % 100 = 0 THEN [m |-> v \div 100, s |-> 1]
    ELSE IF v % 10 = 0 THEN [m |-> v \div 10, s |-> 2]
    ELSE [m |-> v, s |-> 3]

BigMin(a, b) == IF b < a THEN b ELSE a

\* config.trading, in thousandths
minOrderSize == 10
maxOrderSize == 1000000
defaultSlippage == 10
maxPositions == 2

\* config.arbitrage: minProfitMargin is the fraction Num/Den (0.02)
minProfitMarginNum == 2
minProfitMarginDen == 100
arbMaxPositionSize == 500000

\* config.copyTrading: minConfidence in hundredths, the size cap in thousandths
minConfidence == 60
copyMaxPositionSize == 100000

-----------------------------------------------------------------------------
(* Array.prototype.sort with a comparator: stable *)

\* a bid comparator that sorts the wrong way round
BidCmpAscending(a, b) == ParseFloat(a.price) - ParseFloat(b.price)

\* the comparators of the two sorts: descending bid prices, ascending ask prices
BidCmp(a, b) == ParseFloat(b.price) - ParseFloat(a.price)
AskCmp(a, b) == ParseFloat(a.price) - ParseFloat(b.price)
TradeCmp(a, b) == b.timestamp - a.timestamp
Cmp(side, a, b) ==
    CASE side = "bids" -> BidCmp(a, b)
      [] side = "asks" -> AskCmp(a, b)
      [] side = "trades" -> TradeCmp(a, b)

RECURSIVE InsertSorted(_, _, _)
InsertSorted(side, s, x) ==
    IF s = << >> THEN <<x>>
    ELSE IF Cmp(side, Head(s), x) <= 0
         THEN <<Head(s)>> \o InsertSorted(side, Tail(s), x)
         ELSE <<x>> \o s

RECURSIVE SortLevels(_, _)
SortLevels(side, s) ==
    IF s = << >> THEN << >>
    ELSE InsertSorted(side, SortLevels(side, SubSeq(s, 1, Len(s) - 1)), s[Len(s)])

-----------------------------------------------------------------------------
(* ArbitrageBot.findArbitrageOpportunity and BaseTradingBot.getBestPrices   *)
(* on the response of api.getOrderBook: an order book or Fail.              *)

\* a margin test that leaves out the floor itself
MarginClearsStrict(bidPrice, askPrice) ==
    (bidPrice - askPrice) * minProfitMarginDen > minProfitMarginNum * askPrice

\* profitMargin >= config.arbitrage.minProfitMargin.  The code rounds the quotient
\* to 20 decimals and compares doubles; for prices in thousandths the quotient is
\* the floor exactly or at least 1/50000 away from it, so the exact comparison
\* decides the same.
MarginClears(bidPrice, askPrice) ==
    (bidPrice - askPrice) * minProfitMarginDen >= minProfitMarginNum * askPrice

FindArbitrageOpportunity(marketId, outcome, resp) ==
    IF resp = Fail THEN Null
    ELSE IF Len(resp.bids) = 0 \/ Len(resp.asks) = 0 THEN Null
    ELSE LET bestBid == SortLevels("bids", resp.bids)[1]
             bestAsk == SortLevels("asks", resp.asks)[1]
             bidPrice == Big(bestBid.price)
             askPrice == Big(bestAsk.price)
         IN IF bidPrice > askPrice
            THEN IF askPrice = 0 THEN Null   \* Big.div throws, caught
                 ELSE IF MarginClears(bidPrice, askPrice)
                 THEN [market |-> marketId,
                       outcome |-> outcome,
                       buyPrice |-> BigToString(askPrice),
                       sellPrice |-> BigToString(bidPrice),
                       buyOrder |-> bestAsk,
                       sellOrder |-> bestBid]
                 ELSE Null
            ELSE Null

\* the size executeArbitrage trades for an opportunity
TradeSize(opportunity) ==
    LET buySize == Big(opportunity.buyOrder.size)
        sellSize == Big(opportunity.sellOrder.size)
        maxSize == BigMin(buySize, sellSize)
    IN BigToString(BigMin(maxSize, arbMaxPositionSize))

GetBestPrices(resp) ==
    IF resp = Fail THEN Null
    ELSE LET bestBid == IF Len(resp.bids) > 0
                        THEN SortLevels("bids", resp.bids)[1].price ELSE Null
             bestAsk == IF Len(resp.asks) > 0
                        THEN SortLevels("asks", resp.asks)[1].price ELSE Null
         IN IF bestBid = Null \/ bestAsk = Null THEN Null
            ELSE [bestBid |-> bestBid, bestAsk |-> bestAsk]

-----------------------------------------------------------------------------
(* CopyTradingBot.calculateWinRate.  Timestamps and Date.now() are counted *)
(* in days; the result is in hundredths.                                   *)

WeekDays == 7

Min(a, b) == IF a < b THEN a ELSE b

\* a win-rate without the ceiling
CalculateWinRateNoCeiling(trades, now) ==
    IF Len(trades) = 0 THEN 0
    ELSE LET IsRecent(t) == now - t.timestamp < WeekDays
             recentTrades == SelectSeq(trades, IsRecent)
         IN IF Len(recentTrades) = 0 THEN 50
            ELSE 50 + Len(recentTrades)

CalculateWinRate(trades, now) ==
    IF Len(trades) = 0 THEN 0
    ELSE LET IsRecent(t) == now - t.timestamp < WeekDays
             recentTrades == SelectSeq(trades, IsRecent)
         IN IF Len(recentTrades) = 0 THEN 50
            ELSE Min(95, 50 + Len(recentTrades))

-----------------------------------------------------------------------------
(* The pure functions, applied to inputs drawn from bounded sets *)

D(m, s) == [m |-> m, s |-> s]

MaxLevels == 2
BidLevels == {[price |-> p, size |-> z] :
                p \in {D(509, 3), D(51, 2), D(60, 2)}, z \in {D(10, 0), D(600, 0)}}
AskLevels == {[price |-> p, size |-> z] :
                p \in {D(50, 2), D(51, 2), D(55, 2)}, z \in {D(8, 0), D(700, 0)}}

SeqsUpTo(S, n) == UNION {[1..k -> S] : k \in 0..n}

OrderBooks == {[bids |-> b, asks |-> a] :
                 b \in SeqsUpTo(BidLevels, MaxLevels), a \in SeqsUpTo(AskLevels, MaxLevels)}

InitBook ==
    /\ bot = Null /\ procs = << >>
    /\ fnName = "none"
    /\ fnIn \in {[market |-> "m1", outcome |-> o, resp |-> r] :
                    o \in {"yes", "no"}, r \in OrderBooks \cup {Fail}}
    /\ fnOut = Null

ApplyFindArbitrageOpportunity ==
    /\ fnName = "none"
    /\ fnName' = "findArbitrageOpportunity"
    /\ LET opportunity == FindArbitrageOpportunity(fnIn.market, fnIn.outcome, fnIn.resp)
       IN fnOut' = [opportunity |-> opportunity,
                    tradeSize |-> IF opportunity = Null THEN Null
                                  ELSE TradeSize(opportunity)]
    /\ UNCHANGED <<fnIn, botVars>>

ApplyGetBestPrices ==
    /\ fnName = "none"
    /\ fnName' = "getBestPrices"
    /\ fnOut' = GetBestPrices(fnIn.resp)
    /\ UNCHANGED <<fnIn, botVars>>

NextBook == ApplyFindArbitrageOpportunity \/ ApplyGetBestPrices

SpecBook == InitBook /\ [][NextBook]_vars

\* what the claims say of an order book, stated apart from the code
Range(s) == {s[i] : i \in DOMAIN s}
MaxOf(S) == CHOOSE x \in S : \A y \in S : y <= x
MinOf(S) == CHOOSE x \in S : \A y \in S : x <= y
Value(str) == str.m * Pow10(3 - str.s)
MaxBidPrice(book) == MaxOf({Value(l.price) : l \in Range(book.bids)})
MinAskPrice(book) == MinOf({Value(l.price) : l \in Range(book.asks)})
HasBothSides(resp) == resp # Fail /\ resp.bids # << >> /\ resp.asks # << >>
IsCrossedEnough(book) ==
    /\ MaxBidPrice(book) > MinAskPrice(book)
    /\ (MaxBidPrice(book) - MinAskPrice(book)) * 100 >= 2 * MinAskPrice(book)

\* C6: findArbitrageOpportunity returns an opportunity iff bestBid > bestAsk and
\* (bestBid - bestAsk)/bestAsk >= minProfitMargin (0.02); the opportunity buys at
\* the best ask price and sells at the best bid price, and the size traded is
\* min(best-bid size, best-ask size, 500), the arbitrage maxPositionSize.
C6_OpportunityIff ==
    (fnName = "findArbitrageOpportunity" /\ HasBothSides(fnIn.resp)) =>
        LET book == fnIn.resp
            opp == fnOut.opportunity
        IN /\ (opp # Null) <=> IsCrossedEnough(book)
           /\ opp # Null =>
                /\ opp.market = fnIn.market /\ opp.outcome = fnIn.outcome
                /\ Value(opp.buyPrice) = MinAskPrice(book)
                /\ Value(opp.sellPrice) = MaxBidPrice(book)
                /\ opp.buyOrder \in Range(book.asks)
                /\ Value(opp.buyOrder.price) = MinAskPrice(book)
                /\ opp.sellOrder \in Range(book.bids)
                /\ Value(opp.sellOrder.price) = MaxBidPrice(book)
                /\ Value(fnOut.tradeSize) =
                     MinOf({Value(opp.sellOrder.size), Value(opp.buyOrder.size), 500000})

\* the scenario of the claim: bids [0.60 x 10], asks [0.55 x 8] gives buy 0.55,
\* sell 0.60, size 8
C6_Witness ==
    /\ fnName = "findArbitrageOpportunity"
    /\ fnIn.resp = [bids |-> <<[price |-> D(60, 2), size |-> D(10, 0)]>>,
                    asks |-> <<[price |-> D(55, 2), size |-> D(8, 0)]>>]
    /\ fnOut.opportunity # Null
    /\ Value(fnOut.opportunity.buyPrice) = 550
    /\ Value(fnOut.opportunity.sellPrice) = 600
    /\ Value(fnOut.tradeSize) = 8000

\* C7: the best bid is the level of maximum bid price and the best ask the level
\* of minimum ask price; with an empty side or a failed fetch both
\* findArbitrageOpportunity and getBestPrices return null, never an error.
C7_BestPricesOrNull ==
    /\ fnName = "getBestPrices" =>
         /\ fnOut # Fail
         /\ ~HasBothSides(fnIn.resp) => fnOut = Null
         /\ HasBothSides(fnIn.resp) =>
              /\ fnOut # Null
              /\ Value(fnOut.bestBid) = MaxBidPrice(fnIn.resp)
              /\ Value(fnOut.bestAsk) = MinAskPrice(fnIn.resp)
    /\ fnName = "findArbitrageOpportunity" =>
         /\ fnOut.opportunity # Fail
         /\ ~HasBothSides(fnIn.resp) => fnOut.opportunity = Null
         /\ fnOut.opportunity # Null =>
              /\ Value(fnOut.opportunity.sellOrder.price) = MaxBidPrice(fnIn.resp)
              /\ Value(fnOut.opportunity.buyOrder.price) = MinAskPrice(fnIn.resp)

\* getBestPrices on a book whose best levels are not the first ones
C7_Witness ==
    /\ fnName = "getBestPrices"
    /\ HasBothSides(fnIn.resp)
    /\ Len(fnIn.resp.bids) = 2 /\ Len(fnIn.resp.asks) = 2
    /\ Value(fnIn.resp.bids[1].price) < Value(fnIn.resp.bids[2].price)
    /\ Value(fnIn.resp.asks[1].price) > Value(fnIn.resp.asks[2].price)
    /\ fnOut # Null
    /\ fnOut.bestBid = fnIn.resp.bids[2].price

-----------------------------------------------------------------------------
(* calculateWinRate on the lists getRecentTradesForTrader returns: sorted,  *)
(* newest first.  GrowTrades is one more trade turning up, newer than any   *)
(* other, and the win-rate computed again.                                  *)

MaxTrades == 47
Nows == {10, 11}

Rep(x, n) == [i \in 1..n |-> x]
MkTrade(ts) == [timestamp |-> ts]
TradeLists ==
    {Rep(MkTrade(10), c) \o Rep(MkTrade(4), b) \o Rep(MkTrade(3), a) :
        <<a, b, c>> \in {x \in (0..MaxTrades) \X (0..MaxTrades) \X (0..MaxTrades) :
                            x[1] + x[2] + x[3] <= MaxTrades}}

InitWinRate ==
    /\ bot = Null /\ procs = << >>
    /\ fnName = "none"
    /\ fnIn \in {[trades |-> l, now |-> n] : l \in TradeLists, n \in Nows}
    /\ fnOut = Null

ApplyCalculateWinRate ==
    /\ fnName = "none"
    /\ fnName' = "calculateWinRate"
    /\ fnOut' = [winRate |-> CalculateWinRate(fnIn.trades, fnIn.now), grown |-> FALSE]
    /\ UNCHANGED <<fnIn, botVars>>

GrowTrades ==
    /\ fnName = "calculateWinRate"
    /\ ~fnOut.grown
    /\ Len(fnIn.trades) < MaxTrades
    /\ fnIn' = [fnIn EXCEPT !.trades = <<MkTrade(fnIn.now)>> \o @]
    /\ fnOut' = [winRate |-> CalculateWinRate(fnIn'.trades, fnIn.now),
                 grown |-> TRUE, before |-> fnOut.winRate]
    /\ UNCHANGED <<fnName, botVars>>

NextWinRate == ApplyCalculateWinRate \/ GrowTrades

SpecWinRate == InitWinRate /\ [][NextWinRate]_vars

RecentCount(trades, now) ==
    Cardinality({i \in DOMAIN trades : now - trades[i].timestamp < 7})

\* C10: the win-rate is 0 on the empty list, 0.5 when no trade is within the last
\* 7 days, and min(0.95, 0.5 + recentCount/100) otherwise; it never exceeds 0.95
\* and does not decrease when recentCount grows.
C10_WinRate ==
    fnName = "calculateWinRate" =>
        LET n == RecentCount(fnIn.trades, fnIn.now)
        IN /\ fnIn.trades = << >> => fnOut.winRate = 0
           /\ (fnIn.trades # << >> /\ n = 0) => fnOut.winRate = 50
           /\ n > 0 => fnOut.winRate = (IF 50 + n > 95 THEN 95 ELSE 50 + n)
           /\ fnOut.winRate <= 95
           /\ fnOut.grown => fnOut.before <= fnOut.winRate

\* the ceiling is reached by growth: 45 recent trades after 44
C10_Witness ==
    /\ fnName = "calculateWinRate"
    /\ RecentCount(fnIn.trades, fnIn.now) = 45
    /\ Len(fnIn.trades) > 45
    /\ fnOut.grown /\ fnOut.before = 94
    /\ fnOut.winRate = 95

-----------------------------------------------------------------------------
(* BaseTradingBot.  An async method runs without interruption from one      *)
(* await of a network response to the next (node runs one callback at a     *)
(* time), so an action below is: one response arrives, or one call is made, *)
(* and the activation runs on (Run) until it awaits its next request or     *)
(* ends.  A pc starting with * is an await of that request's response.      *)

\* Map.prototype.set / delete on a Map modelled as a function
MapSet(map, k, v) == [x \in DOMAIN map \cup {k} |-> IF x = k THEN v ELSE map[x]]
MapDelete(map, k) == [x \in DOMAIN map \ {k} |-> map[x]]
EmptyMap == [x \in {} |-> Null]

\* `${market}-${outcome}`
Key(market, outcome) == market \o "-" \o outcome

\* positions.clear(); positions.forEach(pos => this.positions.set(key, pos))
RECURSIVE SetAll(_, _)
SetAll(map, positions) ==
    IF positions = << >> THEN map
    ELSE SetAll(MapSet(map, Key(Head(positions).market, Head(positions).outcome),
                       Head(positions)),
                Tail(positions))

\* a gate whose price test lets every price through
OrderGateNoPrice(params) ==
    LET size == Big(params.size)
    IN IF size < minOrderSize THEN "below minimum"
       ELSE IF size > maxOrderSize THEN "exceeds maximum"
       ELSE "ok"

\* a gate that turns away an order of exactly the minimum size
OrderGateStrict(params) ==
    LET size == Big(params.size)
        price == Big(params.price)
    IN IF size <= minOrderSize THEN "below minimum"
       ELSE IF size > maxOrderSize THEN "exceeds maximum"
       ELSE IF price < 0 \/ price > 1000 THEN "invalid price"
       ELSE "ok"

\* placeOrder's validation: "ok" or the error thrown
OrderGate(params) ==
    LET size == Big(params.size)
        price == Big(params.price)
    IN IF size < minOrderSize THEN "below minimum"
       ELSE IF size > maxOrderSize THEN "exceeds maximum"
       ELSE IF price < 0 \/ price > 1000 THEN "invalid price"
       ELSE "ok"

CanOpenPosition(g) == Cardinality(DOMAIN g.positions) < maxPositions

\* getPosition: the cached entry or undefined
GetPosition(g, market, outcome) ==
    IF Key(market, outcome) \in DOMAIN g.positions
    THEN g.positions[Key(market, outcome)] ELSE Null

\* the fields of a bot after its constructor
NewBot ==
    [positions |-> EmptyMap,
     isRunning |-> FALSE,
     interval |-> 0,            \* opportunityCheckInterval: a timer id, 0 undefined
     liveTimers |-> {},         \* the interval timers set and not cleared
     timersSet |-> 0,           \* how many setInterval calls were made
     activeOpportunities |-> EmptyMap,
     markets |-> << >>,
     lastFetch |-> << >>]       \* the body of the getPositions the ledger was last filled from

\* an activation: the locals of the async call chain of one tick or call
NewProc(id, kind, pc) ==
    [id |-> id, kind |-> kind, pc |-> pc,
     ret |-> "none",            \* where the placeOrder / loadMarkets in progress returns to
     result |-> "pending",      \* of the outermost call: pending, returned, threw
     refresh |-> FALSE,         \* Math.random() < 0.1
     mlist |-> << >>, mi |-> 0, \* this.markets.slice(0, 50) and the loop's position
     yesOpportunity |-> Null, noOpportunity |-> Null,
     opportunity |-> Null,      \* executeArbitrage's argument
     key |-> "",
     tradeSize |-> Null,
     ord |-> Null,              \* the placeOrder call in progress or finished last
     trace |-> << >>,           \* what the executeArbitrage running or run last did
     seen |-> {},               \* the followed traders the for-of loop has been through
     trader |-> "",             \* traderAddress
     activity |-> 0,            \* checkTraderTrades' activity: a reference, 0 none
     mj |-> 0,                  \* getRecentTradesForTrader: activeMarkets' position
     allTrades |-> << >>,
     recentTrades |-> << >>,
     newTrades |-> << >>, nj |-> 0,
     copied |-> << >>,          \* the placeOrder calls of processTraderTrade so far
     ran |-> bot.isRunning,     \* isRunning when the activation began
     batch |-> 0,               \* how many trades checkTraderTrades' loop was to go through
     polls |-> << >>]           \* the fetches of checkTraderTrades so far, and what each found

\* an executeArbitrage that goes from the buy leg straight to the release
ReturnedSkipsSell(ret) ==
    CASE ret \in {"buy leg", "sell leg"} -> "release"
      [] OTHER -> "return"

\* where a placeOrder / refreshPositions call continues when it returns or throws
Returned(ret) ==
    CASE ret = "buy leg" -> "sell"
      [] ret = "sell leg" -> "release"
      [] ret = "copy trade" -> "process next"
      [] OTHER -> "return"
\* a processTraderTrade without its catch: the error of placeOrder goes up
ThrownOutOfTick(ret) ==
    CASE ret \in {"buy leg", "sell leg"} -> "catch"
      [] OTHER -> "throw"

Thrown(ret) ==
    CASE ret \in {"buy leg", "sell leg"} -> "catch"
      [] ret = "copy trade" -> "process next"
      [] OTHER -> "throw"

\* placeOrder up to its first await: the gate, then the createOrder request
PlaceOrder(st, params, ret) ==
    LET gate == OrderGate(params)
        ord == [params |-> params, gate |-> gate, calls |-> << >>,
                response |-> Null, result |-> "pending"]
    IN IF gate # "ok"
       THEN [st EXCEPT !.l.ord = [ord EXCEPT !.result = "threw"],
                       !.l.ret = ret,
                       !.l.pc = Thrown(ret)]
       ELSE [st EXCEPT !.l.ord = [ord EXCEPT !.calls = <<"createOrder">>],
                       !.l.ret = ret,
                       !.l.pc = "*createOrder"]

\* a placeOrder that returns the response without refreshing the positions
OnCreateOrderNoRefresh(st, resp) ==
    IF resp = Fail
    THEN [st EXCEPT !.l.ord.response = Fail,
                    !.l.ord.result = "threw",
                    !.l.pc = Thrown(st.l.ret)]
    ELSE [st EXCEPT !.l.ord.response = resp,
                    !.l.ord.result = "returned",
                    !.l.pc = Returned(st.l.ret)]

\* placeOrder after api.createOrder: refreshPositions is called on success
OnCreateOrder(st, resp) ==
    IF resp = Fail
    THEN [st EXCEPT !.l.ord.response = Fail,
                    !.l.ord.result = "threw",
                    !.l.pc = Thrown(st.l.ret)]
    ELSE [st EXCEPT !.l.ord.response = resp,
                    !.l.ord.calls = Append(@, "getPositions"),
                    !.l.pc = "*getPositions"]

\* a refreshPositions that sets the fetched positions without clearing the map
OnGetPositionsNoClear(st, resp) ==
    IF resp = Fail
    THEN IF st.l.ord = Null
         THEN [st EXCEPT !.l.pc = Thrown(st.l.ret)]
         ELSE [st EXCEPT !.l.ord.result = "threw", !.l.pc = Thrown(st.l.ret)]
    ELSE LET ledger == SetAll(st.g.positions, resp.data)
         IN IF st.l.ord = Null
            THEN [st EXCEPT !.g.positions = ledger,
                            !.g.lastFetch = resp.data,
                            !.l.pc = Returned(st.l.ret)]
            ELSE [st EXCEPT !.g.positions = ledger,
                            !.g.lastFetch = resp.data,
                            !.l.ord.result = "returned",
                            !.l.pc = Returned(st.l.ret)]

\* a refreshPositions that empties the ledger when its fetch fails
OnGetPositionsClearsOnFailure(st, resp) ==
    IF resp = Fail
    THEN IF st.l.ord = Null
         THEN [st EXCEPT !.g.positions = EmptyMap, !.l.pc = Thrown(st.l.ret)]
         ELSE [st EXCEPT !.g.positions = EmptyMap,
                         !.l.ord.result = "threw", !.l.pc = Thrown(st.l.ret)]
    ELSE LET ledger == SetAll(EmptyMap, resp.data)
         IN IF st.l.ord = Null
            THEN [st EXCEPT !.g.positions = ledger,
                            !.g.lastFetch = resp.data,
                            !.l.pc = Returned(st.l.ret)]
            ELSE [st EXCEPT !.g.positions = ledger,
                            !.g.lastFetch = resp.data,
                            !.l.ord.result = "returned",
                            !.l.pc = Returned(st.l.ret)]

\* refreshPositions after api.getPositions, and the return of placeOrder
OnGetPositions(st, resp) ==
    IF resp = Fail
    THEN IF st.l.ord = Null
         THEN [st EXCEPT !.l.pc = Thrown(st.l.ret)]
         ELSE [st EXCEPT !.l.ord.result = "threw", !.l.pc = Thrown(st.l.ret)]
    ELSE LET ledger == SetAll(EmptyMap, resp.data)
         IN IF st.l.ord = Null
            THEN [st EXCEPT !.g.positions = ledger,
                            !.g.lastFetch = resp.data,
                            !.l.pc = Returned(st.l.ret)]
            ELSE [st EXCEPT !.g.positions = ledger,
                            !.g.lastFetch = resp.data,
                            !.l.ord.result = "returned",
                            !.l.pc = Returned(st.l.ret)]

-----------------------------------------------------------------------------
(* ArbitrageBot *)

Slice50(s) == SubSeq(s, 1, Min(50, Len(s)))
IsActive(m) == m.active

\* start() up to its await of loadMarkets
StartArb(st) ==
    IF st.g.isRunning THEN [st EXCEPT !.l.pc = "return"]
    ELSE [st EXCEPT !.g.isRunning = TRUE, !.l.ret = "start", !.l.pc = "*getMarkets"]

\* start() after loadMarkets: setInterval
SetIntervalArb(st) ==
    LET id == st.g.timersSet + 1
    IN [st EXCEPT !.g.timersSet = id,
                  !.g.interval = id,
                  !.g.liveTimers = @ \cup {id},
                  !.l.pc = "return"]

\* stop()
StopBot(g) ==
    IF ~g.isRunning THEN g
    ELSE [g EXCEPT !.isRunning = FALSE,
                   !.liveTimers = IF g.interval # 0 THEN @ \ {g.interval} ELSE @,
                   !.interval = 0]

\* loadMarkets after api.getMarkets; start() lets its error through,
\* scanForOpportunities catches it
OnGetMarkets(st, resp) ==
    IF resp = Fail
    THEN [st EXCEPT !.l.pc = IF st.l.ret = "start" THEN "throw" ELSE "return"]
    ELSE [st EXCEPT !.g.markets = SelectSeq(resp.data, IsActive),
                    !.l.pc = IF st.l.ret = "start" THEN "setInterval" ELSE "loop init"]

\* scanForOpportunities up to its first await
Scan(st) ==
    IF ~st.g.isRunning THEN [st EXCEPT !.l.pc = "return"]
    ELSE IF st.l.refresh
    THEN [st EXCEPT !.l.refresh = FALSE, !.l.ret = "scan", !.l.pc = "*getMarkets"]
    ELSE [st EXCEPT !.l.pc = "loop init"]

\* checkMarketOpportunities: the two findArbitrageOpportunity calls
OnOrderBookYes(st, resp) ==
    [st EXCEPT !.l.yesOpportunity =
                   FindArbitrageOpportunity(st.l.mlist[st.l.mi].id, "yes", resp),
               !.l.pc = "*getOrderBook no"]
OnOrderBookNo(st, resp) ==
    [st EXCEPT !.l.noOpportunity =
                   FindArbitrageOpportunity(st.l.mlist[st.l.mi].id, "no", resp),
               !.l.pc = "execute yes"]

\* an executeArbitrage that marks the key without looking whether it is active
ExecuteArbitrageNoDedup(st) ==
    LET opportunity == st.l.opportunity
        key == Key(opportunity.market, opportunity.outcome)
    IN IF ~CanOpenPosition(st.g)
       THEN [st EXCEPT !.l.key = key, !.l.trace = <<"capped">>, !.l.pc = "after execute"]
       ELSE [st EXCEPT !.g.activeOpportunities =
                           MapSet(@, key, [opportunity |-> opportunity, by |-> st.l.id]),
                       !.l.key = key,
                       !.l.tradeSize = TradeSize(opportunity),
                       !.l.trace = <<"mark">>,
                       !.l.pc = "buy"]

\* an executeArbitrage that does not look at the position count
ExecuteArbitrageNoCap(st) ==
    LET opportunity == st.l.opportunity
        key == Key(opportunity.market, opportunity.outcome)
    IN IF key \in DOMAIN st.g.activeOpportunities
       THEN [st EXCEPT !.l.key = key, !.l.trace = <<"dropped">>, !.l.pc = "after execute"]
       ELSE [st EXCEPT !.g.activeOpportunities =
                           MapSet(@, key, [opportunity |-> opportunity, by |-> st.l.id]),
                       !.l.key = key,
                       !.l.tradeSize = TradeSize(opportunity),
                       !.l.trace = <<"mark">>,
                       !.l.pc = "buy"]

\* executeArbitrage up to the buy leg: the de-duplication and cap checks, the mark
ExecuteArbitrage(st) ==
    LET opportunity == st.l.opportunity
        key == Key(opportunity.market, opportunity.outcome)
    IN IF key \in DOMAIN st.g.activeOpportunities
       THEN [st EXCEPT !.l.key = key, !.l.trace = <<"dropped">>, !.l.pc = "after execute"]
       ELSE IF ~CanOpenPosition(st.g)
       THEN [st EXCEPT !.l.key = key, !.l.trace = <<"capped">>, !.l.pc = "after execute"]
       ELSE [st EXCEPT !.g.activeOpportunities =
                           MapSet(@, key, [opportunity |-> opportunity, by |-> st.l.id]),
                       !.l.key = key,
                       !.l.tradeSize = TradeSize(opportunity),
                       !.l.trace = <<"mark">>,
                       !.l.pc = "buy"]

LegParams(l, side) ==
    [market |-> l.opportunity.market,
     outcome |-> l.opportunity.outcome,
     side |-> side,
     price |-> IF side = "buy" THEN l.opportunity.buyPrice ELSE l.opportunity.sellPrice,
     size |-> l.tradeSize]

BuyLeg(st) ==
    PlaceOrder([st EXCEPT !.l.trace = Append(@, "buy")], LegParams(st.l, "buy"), "buy leg")

SellLeg(st) ==
    PlaceOrder([st EXCEPT !.l.trace = @ \o <<"buy ok", "sell">>],
               LegParams(st.l, "sell"), "sell leg")

\* a catch block that forgets the key
CatchKeepsKey(st) ==
    [st EXCEPT !.l.trace = Append(@, IF st.l.ret = "buy leg" THEN "buy failed"
                                                              ELSE "sell failed"),
               !.l.pc = "after execute"]

\* the end of executeArbitrage: after both legs, and in the catch block
Release(st) ==
    [st EXCEPT !.g.activeOpportunities = MapDelete(@, st.l.key),
               !.l.trace = @ \o <<"sell ok", "release">>,
               !.l.pc = "after execute"]
Catch(st) ==
    [st EXCEPT !.g.activeOpportunities = MapDelete(@, st.l.key),
               !.l.trace = @ \o <<IF st.l.ret = "buy leg" THEN "buy failed"
                                                            ELSE "sell failed",
                                  "release">>,
               !.l.pc = "after execute"]

-----------------------------------------------------------------------------
(* CopyTradingBot *)

\* Date.now(), counted in days as a trade's timestamp is
Now == WeekDays + 3

\* config.copyTrading.traderAddresses
traderAddresses == <<"T">>

\* the fields of a CopyTradingBot after its constructor; a TraderActivity
\* object is an entry of activities, and a reference to it is its index
NewCopyBot ==
    [positions |-> EmptyMap,
     isRunning |-> FALSE,
     interval |-> 0,            \* tradeCheckInterval: a timer id, 0 undefined
     liveTimers |-> {},
     timersSet |-> 0,
     traderActivities |-> EmptyMap,
     activities |-> << >>,
     followedTraders |-> traderAddresses,
     lastFetch |-> << >>]

Slice20(s) == SubSeq(s, 1, Min(20, Len(s)))
Involves(trade, traderAddress) ==
    trade.maker = traderAddress \/ trade.taker = traderAddress
TradeIds(trades) == [i \in DOMAIN trades |-> trades[i].id]

\* Math.max(...trades.map((t) => t.timestamp), lastTradeTime)
MaxTimestamp(trades, lastTradeTime) ==
    LET S == {trades[i].timestamp : i \in DOMAIN trades} \cup {lastTradeTime}
    IN CHOOSE x \in S : \A y \in S : y <= x

\* the next element of the for-of loop over this.followedTraders, "" at its end
NextFollowed(g, seen) ==
    LET NotSeen(a) == a \notin seen
        rest == SelectSeq(g.followedTraders, NotSeen)
    IN IF rest = << >> THEN "" ELSE rest[1]

\* addTrader: Set.prototype.add puts a new address last
AddTrader(g, address) ==
    IF address \in Range(g.followedTraders) THEN g
    ELSE [g EXCEPT !.followedTraders = Append(@, address)]

\* removeTrader: the address leaves the follow list and the activity map
RemoveTrader(g, address) ==
    LET Other(a) == a # address
    IN [g EXCEPT !.followedTraders = SelectSeq(@, Other),
                 !.traderActivities =
                     IF address \in DOMAIN @ THEN MapDelete(@, address) ELSE @]

\* start() up to initializeTraderActivities
StartCopy(st) ==
    IF st.g.isRunning THEN [st EXCEPT !.l.pc = "return"]
    ELSE [st EXCEPT !.g.isRunning = TRUE, !.l.seen = {}, !.l.pc = "init next"]

\* initializeTraderActivities: the head of its loop
InitNext(st) ==
    LET a == NextFollowed(st.g, st.l.seen)
    IN IF a = "" THEN [st EXCEPT !.l.pc = "setInterval"]
       ELSE [st EXCEPT !.l.trader = a,
                       !.l.seen = @ \cup {a},
                       !.l.pc = "*getPositions (trader)"]

\* initializeTraderActivities after api.getPositions(traderAddress)
OnTraderPositions(st, resp) ==
    IF resp = Fail THEN [st EXCEPT !.l.pc = "init next"]
    ELSE [st EXCEPT !.l.ret = "init", !.l.pc = "*getMarkets (trades)"]

\* getRecentTradesForTrader after api.getMarkets
OnTradesMarkets(st, resp) ==
    IF resp = Fail
    THEN [st EXCEPT !.l.recentTrades = << >>, !.l.pc = "recent done"]
    ELSE [st EXCEPT !.l.mlist = Slice20(SelectSeq(resp.data, IsActive)),
                    !.l.mj = 1,
                    !.l.allTrades = << >>,
                    !.l.pc = "trades loop"]

\* getRecentTradesForTrader: the head of its loop, and the sort after it
TradesLoop(st) ==
    IF st.l.mj > Len(st.l.mlist)
    THEN [st EXCEPT !.l.recentTrades = SortLevels("trades", st.l.allTrades),
                    !.l.allTrades = << >>,
                    !.l.mlist = << >>,
                    !.l.pc = "recent done"]
    ELSE [st EXCEPT !.l.pc = "*getTrades"]

\* getRecentTradesForTrader after api.getTrades(market.id, 100)
OnGetTrades(st, resp) ==
    IF resp = Fail
    THEN [st EXCEPT !.l.mj = @ + 1, !.l.pc = "trades loop"]
    ELSE LET OfTrader(trade) == Involves(trade, st.l.trader)
         IN [st EXCEPT !.l.allTrades = @ \o SelectSeq(resp.data, OfTrader),
                       !.l.mj = @ + 1,
                       !.l.pc = "trades loop"]

\* initializeTraderActivities after getRecentTradesForTrader
InitActivity(st) ==
    LET recentTrades == st.l.recentTrades
        activity == [address |-> st.l.trader,
                     recentTrades |-> TradeIds(recentTrades),
                     winRate |-> CalculateWinRate(recentTrades, Now),
                     totalTrades |-> Len(recentTrades),
                     lastTradeTime |-> IF Len(recentTrades) > 0
                                       THEN recentTrades[1].timestamp ELSE 0]
    IN [st EXCEPT !.g.activities = Append(@, activity),
                  !.g.traderActivities = MapSet(@, st.l.trader, Len(st.g.activities) + 1),
                  !.l.recentTrades = << >>,
                  !.l.polls = Append(@, [trader |-> st.l.trader,
                                         since |-> 0,
                                         fetched |-> recentTrades,
                                         found |-> << >>]),
                  !.l.pc = "init next"]

\* a monitorTrades that does not look at isRunning
MonitorNoRunningCheck(st) ==
    [st EXCEPT !.l.seen = {}, !.l.pc = "monitor next"]

\* monitorTrades
Monitor(st) ==
    IF ~st.g.isRunning THEN [st EXCEPT !.l.pc = "return"]
    ELSE [st EXCEPT !.l.seen = {}, !.l.pc = "monitor next"]
MonitorNext(st) ==
    LET a == NextFollowed(st.g, st.l.seen)
    IN IF a = "" THEN [st EXCEPT !.l.pc = "return"]
       ELSE [st EXCEPT !.l.trader = a,
                       !.l.seen = @ \cup {a},
                       !.l.pc = "check trader"]

\* checkTraderTrades up to getRecentTradesForTrader
CheckTraderTrades(st) ==
    IF st.l.trader \notin DOMAIN st.g.traderActivities
    THEN [st EXCEPT !.l.pc = "monitor next"]
    ELSE [st EXCEPT !.l.activity = st.g.traderActivities[st.l.trader],
                    !.l.ret = "check",
                    !.l.pc = "*getMarkets (trades)"]

\* a filter that takes the trades of the last-seen timestamp itself as new
CheckNewNotStrict(st) ==
    LET activity == st.g.activities[st.l.activity]
        IsNew(trade) == /\ trade.timestamp >= activity.lastTradeTime
                        /\ Involves(trade, st.l.trader)
        newTrades == SelectSeq(st.l.recentTrades, IsNew)
        poll == [trader |-> st.l.trader,
                 since |-> activity.lastTradeTime,
                 fetched |-> st.l.recentTrades,
                 found |-> newTrades]
    IN IF Len(newTrades) = 0
       THEN [st EXCEPT !.l.recentTrades = << >>,
                       !.l.polls = Append(@, poll),
                       !.l.pc = "monitor next"]
       ELSE [st EXCEPT !.l.newTrades = newTrades,
                       !.l.nj = 1,
                       !.l.batch = @ + Len(newTrades),
                       !.l.polls = Append(@, poll),
                       !.l.pc = "process loop"]

\* checkTraderTrades after getRecentTradesForTrader: the new trades
CheckNew(st) ==
    LET activity == st.g.activities[st.l.activity]
        IsNew(trade) == /\ trade.timestamp > activity.lastTradeTime
                        /\ Involves(trade, st.l.trader)
        newTrades == SelectSeq(st.l.recentTrades, IsNew)
        poll == [trader |-> st.l.trader,
                 since |-> activity.lastTradeTime,
                 fetched |-> st.l.recentTrades,
                 found |-> newTrades]
    IN IF Len(newTrades) = 0
       THEN [st EXCEPT !.l.recentTrades = << >>,
                       !.l.polls = Append(@, poll),
                       !.l.pc = "monitor next"]
       ELSE [st EXCEPT !.l.newTrades = newTrades,
                       !.l.nj = 1,
                       !.l.batch = @ + Len(newTrades),
                       !.l.polls = Append(@, poll),
                       !.l.pc = "process loop"]

\* checkTraderTrades after its loop: the activity object is brought up to date
UpdateActivity(st) ==
    LET recentTrades == st.l.recentTrades
        activity == st.g.activities[st.l.activity]
    IN [st EXCEPT !.g.activities[st.l.activity] =
                      [activity EXCEPT
                          !.recentTrades = TradeIds(recentTrades),
                          !.lastTradeTime = MaxTimestamp(recentTrades, @),
                          !.winRate = CalculateWinRate(recentTrades, Now),
                          !.totalTrades = Len(recentTrades)],
                  !.l.recentTrades = << >>,
                  !.l.newTrades = << >>,
                  !.l.nj = 0,
                  !.l.pc = "monitor next"]

\* a side test that takes the trader's trades as maker too
MirrorSideAnyRole(trade, traderAddress) ==
    LET isTraderBuying == Involves(trade, traderAddress) /\ trade.side = "buy"
        isTraderSelling == Involves(trade, traderAddress) /\ trade.side = "sell"
    IN IF ~isTraderBuying /\ ~isTraderSelling THEN "none"
       ELSE IF isTraderBuying THEN "buy" ELSE "sell"

\* processTraderTrade: the side of our order, "none" when the trade is let go
MirrorSide(trade, traderAddress) ==
    LET isTraderBuying == trade.taker = traderAddress /\ trade.side = "buy"
        isTraderSelling == trade.taker = traderAddress /\ trade.side = "sell"
    IN IF ~isTraderBuying /\ ~isTraderSelling THEN "none"
       ELSE IF isTraderBuying THEN "buy" ELSE "sell"

\* a mirrored order whose price gives the slippage away on the wrong side
MirrorOrderSlippageReversed(trade, side) ==
    LET traderSize == Big(trade.size)
        maxSize == copyMaxPositionSize
        ourSize == BigToString(BigMin(traderSize, maxSize))
        price == Big(trade.price)
        slippage == defaultSlippage
        ourPrice == IF side = "buy" THEN BigToString(price - slippage)
                                    ELSE BigToString(price + slippage)
    IN [market |-> trade.market, outcome |-> trade.outcome, side |-> side,
        price |-> ourPrice, size |-> ourSize]

\* processTraderTrade: the order that copies a trade
MirrorOrder(trade, side) ==
    LET traderSize == Big(trade.size)
        maxSize == copyMaxPositionSize
        ourSize == BigToString(BigMin(traderSize, maxSize))
        price == Big(trade.price)
        slippage == defaultSlippage
        ourPrice == IF side = "buy" THEN BigToString(price + slippage)
                                    ELSE BigToString(price - slippage)
    IN [market |-> trade.market, outcome |-> trade.outcome, side |-> side,
        price |-> ourPrice, size |-> ourSize]

\* a processTraderTrade that copies at any win-rate
ProcessTraderTradeAnyConfidence(st) ==
    LET trade == st.l.newTrades[st.l.nj]
        traderAddress == st.l.trader
        Skip(why) == [st EXCEPT !.l.trace = Append(@, why), !.l.pc = "process next"]
    IN IF traderAddress \notin DOMAIN st.g.traderActivities THEN Skip("no activity")
       ELSE LET activity == st.g.activities[st.g.traderActivities[traderAddress]]
                side == MirrorSide(trade, traderAddress)
            IN IF side = "none" THEN Skip("not taker")
               ELSE IF ~CanOpenPosition(st.g) THEN Skip("capped")
               ELSE LET params == MirrorOrder(trade, side)
                    IN PlaceOrder([st EXCEPT !.l.trace = Append(@, "order"),
                                             !.l.copied =
                                       Append(@, [trade |-> trade,
                                                  trader |-> traderAddress,
                                                  winRate |-> activity.winRate,
                                                  running |-> st.g.isRunning,
                                                  params |-> params,
                                                  outcome |-> "pending"])],
                                  params, "copy trade")

\* a processTraderTrade that does not look at the position count
ProcessTraderTradeNoCap(st) ==
    LET trade == st.l.newTrades[st.l.nj]
        traderAddress == st.l.trader
        Skip(why) == [st EXCEPT !.l.trace = Append(@, why), !.l.pc = "process next"]
    IN IF traderAddress \notin DOMAIN st.g.traderActivities THEN Skip("no activity")
       ELSE LET activity == st.g.activities[st.g.traderActivities[traderAddress]]
                side == MirrorSide(trade, traderAddress)
            IN IF activity.winRate < minConfidence THEN Skip("low confidence")
               ELSE IF side = "none" THEN Skip("not taker")
               ELSE LET params == MirrorOrder(trade, side)
                    IN PlaceOrder([st EXCEPT !.l.trace = Append(@, "order"),
                                             !.l.copied =
                                       Append(@, [trade |-> trade,
                                                  trader |-> traderAddress,
                                                  winRate |-> activity.winRate,
                                                  running |-> st.g.isRunning,
                                                  params |-> params,
                                                  outcome |-> "pending"])],
                                  params, "copy trade")

\* processTraderTrade up to the await of placeOrder; trace notes what became of
\* each trade it was called with
ProcessTraderTrade(st) ==
    LET trade == st.l.newTrades[st.l.nj]
        traderAddress == st.l.trader
        Skip(why) == [st EXCEPT !.l.trace = Append(@, why), !.l.pc = "process next"]
    IN IF traderAddress \notin DOMAIN st.g.traderActivities THEN Skip("no activity")
       ELSE LET activity == st.g.activities[st.g.traderActivities[traderAddress]]
                side == MirrorSide(trade, traderAddress)
            IN IF activity.winRate < minConfidence THEN Skip("low confidence")
               ELSE IF side = "none" THEN Skip("not taker")
               ELSE IF ~CanOpenPosition(st.g) THEN Skip("capped")
               ELSE LET params == MirrorOrder(trade, side)
                    IN PlaceOrder([st EXCEPT !.l.trace = Append(@, "order"),
                                             !.l.copied =
                                       Append(@, [trade |-> trade,
                                                  trader |-> traderAddress,
                                                  winRate |-> activity.winRate,
                                                  running |-> st.g.isRunning,
                                                  params |-> params,
                                                  outcome |-> "pending"])],
                                  params, "copy trade")

\* processTraderTrade is over: its placeOrder, if it came to one, has returned
\* or thrown
Settle(l) ==
    IF l.copied # << >> /\ l.copied[Len(l.copied)].outcome = "pending"
    THEN [l.copied EXCEPT ![Len(l.copied)].outcome = l.ord.result]
    ELSE l.copied

\* the end of a call: its locals are gone, what it did is kept for the record
Finish(st, result) ==
    [st EXCEPT !.l = [NewProc(st.l.id, st.l.kind, "done") EXCEPT
                         !.result = result,
                         !.key = st.l.key,
                         !.ord = IF st.l.kind = "tick" THEN Null ELSE st.l.ord,
                         !.trace = st.l.trace,
                         !.copied = st.l.copied,
                         !.ran = st.l.ran,
                         !.seen = st.l.seen,
                         !.batch = st.l.batch,
                         !.polls = st.l.polls]]

\* one synchronous stretch of code, by the place the activation is at
Step(st) ==
    LET l == st.l
    IN CASE l.pc = "start" -> StartArb(st)
         [] l.pc = "setInterval" -> SetIntervalArb(st)
         [] l.pc = "scan" -> Scan(st)
         [] l.pc = "loop init" ->
                [st EXCEPT !.l.mlist = Slice50(st.g.markets), !.l.mi = 1, !.l.pc = "loop"]
         [] l.pc = "loop" ->
                IF l.mi > Len(l.mlist) THEN [st EXCEPT !.l.pc = "return"]
                ELSE [st EXCEPT !.l.pc = "*getOrderBook yes"]
         [] l.pc = "execute yes" ->
                IF l.yesOpportunity # Null
                THEN [st EXCEPT !.l.opportunity = l.yesOpportunity,
                                !.l.pc = "executeArbitrage"]
                ELSE [st EXCEPT !.l.pc = "execute no"]
         [] l.pc = "execute no" ->
                IF l.noOpportunity # Null
                THEN [st EXCEPT !.l.opportunity = l.noOpportunity,
                                !.l.pc = "executeArbitrage"]
                ELSE [st EXCEPT !.l.pc = "next market"]
         [] l.pc = "executeArbitrage" -> ExecuteArbitrage(st)
         [] l.pc = "buy" -> BuyLeg(st)
         [] l.pc = "sell" -> SellLeg(st)
         [] l.pc = "release" -> Release(st)
         [] l.pc = "catch" -> Catch(st)
         [] l.pc = "after execute" ->
                IF l.opportunity.outcome = "yes" THEN [st EXCEPT !.l.pc = "execute no"]
                ELSE [st EXCEPT !.l.pc = "next market"]
         [] l.pc = "next market" ->
                [st EXCEPT !.l.mi = @ + 1,
                           !.l.yesOpportunity = Null,
                           !.l.noOpportunity = Null,
                           !.l.pc = "loop"]
         [] l.pc = "copy start" -> StartCopy(st)
         [] l.pc = "init next" -> InitNext(st)
         [] l.pc = "trades loop" -> TradesLoop(st)
         [] l.pc = "recent done" ->
                IF l.ret = "init" THEN InitActivity(st) ELSE CheckNew(st)
         [] l.pc = "monitor" -> Monitor(st)
         [] l.pc = "monitor next" -> MonitorNext(st)
         [] l.pc = "check trader" -> CheckTraderTrades(st)
         [] l.pc = "process loop" ->
                IF l.nj > Len(l.newTrades) THEN [st EXCEPT !.l.pc = "update activity"]
                ELSE [st EXCEPT !.l.pc = "process trade"]
         [] l.pc = "process trade" -> ProcessTraderTrade(st)
         [] l.pc = "process next" ->
                [st EXCEPT !.l.copied = Settle(l), !.l.nj = @ + 1, !.l.pc = "process loop"]
         [] l.pc = "update activity" -> UpdateActivity(st)
         [] l.pc = "return" -> Finish(st, "returned")
         [] l.pc = "throw" -> Finish(st, "threw")

Awaits == {"*getMarkets", "*getOrderBook yes", "*getOrderBook no",
           "*createOrder", "*getPositions",
           "*getPositions (trader)", "*getMarkets (trades)", "*getTrades"}

RECURSIVE Run(_)
Run(st) == IF st.l.pc \in Awaits \cup {"done"} THEN st ELSE Run(Step(st))

-----------------------------------------------------------------------------
(* The exchange: what a request may be answered with *)

\* a response whose body is a list
Body(list) == [tag |-> "ok", data |-> list]
Mkt(id, active) == [id |-> id, active |-> active]
Pos(market, outcome) == [market |-> market, outcome |-> outcome]
Level(price, size) == [price |-> price, size |-> size]

MarketLists == {Body(<<Mkt("m1", TRUE), Mkt("m2", FALSE)>>),
                Body(<<Mkt("m2", FALSE)>>)}
\* crossed by 9%; crossed with too little on offer for an order; not crossed
ArbBooks == {[bids |-> <<Level(D(60, 2), D(10, 0))>>, asks |-> <<Level(D(55, 2), D(8, 0))>>],
             [bids |-> <<Level(D(60, 2), D(10, 0))>>, asks |-> <<Level(D(55, 2), D(5, 3))>>],
             [bids |-> <<Level(D(50, 2), D(10, 0))>>, asks |-> <<Level(D(55, 2), D(8, 0))>>]}
OrderResponses == {[id |-> "order", status |-> "pending"]}
PositionLists == {Body(<< >>), Body(<<Pos("m1", "yes")>>),
                  Body(<<Pos("m1", "yes"), Pos("m2", "no")>>)}

Count(kind) == Cardinality({i \in DOMAIN procs : procs[i].kind = kind})

\* a new activation, run to its first await
Spawn(l) ==
    LET st == Run([g |-> bot, l |-> l])
    IN bot' = st.g /\ procs' = Append(procs, st.l)

\* activation i goes on from the state st its response left it in
Resume(i, st) ==
    LET end == Run(st)
    IN bot' = end.g /\ procs' = [procs EXCEPT ![i] = end.l]

At(i) == [g |-> bot, l |-> procs[i]]

RespondCreateOrder ==
    \E i \in DOMAIN procs, resp \in OrderResponses \cup {Fail} :
        /\ procs[i].pc = "*createOrder"
        /\ Resume(i, OnCreateOrder(At(i), resp))
        /\ UNCHANGED pureVars

RespondGetPositions ==
    \E i \in DOMAIN procs, resp \in PositionLists \cup {Fail} :
        /\ procs[i].pc = "*getPositions"
        /\ Resume(i, OnGetPositions(At(i), resp))
        /\ UNCHANGED pureVars

RespondGetMarkets ==
    \E i \in DOMAIN procs, resp \in MarketLists \cup {Fail} :
        /\ procs[i].pc = "*getMarkets"
        /\ Resume(i, OnGetMarkets(At(i), resp))
        /\ UNCHANGED pureVars

RespondGetOrderBook ==
    \E i \in DOMAIN procs, resp \in ArbBooks \cup {Fail} :
        /\ \/ procs[i].pc = "*getOrderBook yes" /\ Resume(i, OnOrderBookYes(At(i), resp))
           \/ procs[i].pc = "*getOrderBook no" /\ Resume(i, OnOrderBookNo(At(i), resp))
        /\ UNCHANGED pureVars

-----------------------------------------------------------------------------
(* The ArbitrageBot: start(), stop() and the ticks of its interval timer *)

MaxTicks == 2

Init ==
    /\ bot = NewBot
    /\ procs = << >>
    /\ fnName = "none" /\ fnIn = Null /\ fnOut = Null

\* main() calls start() once
StartCall ==
    /\ Count("start") = 0
    /\ Spawn(NewProc(Len(procs) + 1, "start", "start"))
    /\ UNCHANGED pureVars

StopCall ==
    /\ bot.isRunning
    /\ bot' = StopBot(bot)
    /\ UNCHANGED <<procs, pureVars>>

TimerFire ==
    /\ bot.liveTimers # {}
    /\ Count("tick") < MaxTicks
    /\ \E refresh \in BOOLEAN :
          Spawn([NewProc(Len(procs) + 1, "tick", "scan") EXCEPT !.refresh = refresh])
    /\ UNCHANGED pureVars

Next ==
    \/ StartCall
    \/ StopCall
    \/ TimerFire
    \/ RespondGetMarkets
    \/ RespondGetOrderBook
    \/ RespondCreateOrder
    \/ RespondGetPositions

Spec == Init /\ [][Next]_vars


Ticks == {i \in DOMAIN procs : procs[i].kind = "tick"}
ActiveKeys == DOMAIN bot.activeOpportunities

\* tick i is inside executeArbitrage between the mark and the release: it awaits
\* the createOrder or the getPositions of one of its two legs
Holding(i) ==
    /\ procs[i].kind = "tick"
    /\ procs[i].pc \in {"*createOrder", "*getPositions"}
    /\ procs[i].ret \in {"buy leg", "sell leg"}

\* C2: at most one executeArbitrage per (market, outcome) key is between marking
\* the key active and releasing it, however the ticks interleave; an execution
\* dropped for an active key has no order in flight.
C2_OneExecutionPerKey ==
    /\ \A i, j \in Ticks :
          (i # j /\ Holding(i) /\ Holding(j)) => procs[i].key # procs[j].key
    /\ \A i \in Ticks : procs[i].trace = <<"dropped">> => ~Holding(i)

\* a tick's opportunity is dropped while the other tick has the key marked
C2_Witness ==
    \E i, j \in Ticks :
        /\ i # j
        /\ Holding(j)
        /\ procs[j].key = "m1-yes"
        /\ procs[i].trace = <<"dropped">>
        /\ procs[i].key = "m1-yes"
        /\ procs[i].pc = "done"

\* C3: the active-opportunities map holds exactly the keys of the executions in
\* flight, each under the execution that added it: a key is gone once its
\* execution has ended, by success or by failure, nothing is active when no
\* execution is in flight, and no execution removes another one's key.
C3_KeysOfExecutionsInFlight ==
    /\ \A k \in ActiveKeys :
          LET i == bot.activeOpportunities[k].by
          IN i \in Ticks /\ Holding(i) /\ procs[i].key = k
    /\ \A i \in Ticks :
          Holding(i) => /\ procs[i].key \in ActiveKeys
                        /\ bot.activeOpportunities[procs[i].key].by = i
    /\ (\A i \in Ticks : ~Holding(i)) => bot.activeOpportunities = EmptyMap

\* an execution ended by a failed leg while another tick holds the other key
C3_Witness ==
    \E i, j \in Ticks :
        /\ procs[i].trace = <<"mark", "buy", "buy ok", "sell", "sell failed", "release">>
        /\ procs[i].pc = "done"
        /\ Holding(j)
        /\ ActiveKeys = {procs[j].key}

ExecutionTraces ==
    {<<"mark", "buy", "buy failed", "release">>,
     <<"mark", "buy", "buy ok", "sell", "sell failed", "release">>,
     <<"mark", "buy", "buy ok", "sell", "sell ok", "release">>}

IsPrefix(s, t) == Len(s) <= Len(t) /\ SubSeq(t, 1, Len(s)) = s
Has(trace, e) == \E n \in DOMAIN trace : trace[n] = e

-----------------------------------------------------------------------------
(* BaseTradingBot alone: its public buy(), sell() and refreshPositions()    *)
(* called with any price and size, calls overlapping.                       *)

MaxCalls == 2

OrderPrices == {D(-1, 3), D(0, 0), D(1, 0), D(1001, 3)}
OrderSizes == {D(9, 3), D(1, 2), D(1000, 0), D(1000001, 3)}

CallBuyOrSell ==
    /\ Len(procs) < MaxCalls
    /\ \E side \in {"buy", "sell"}, price \in OrderPrices, size \in OrderSizes :
          LET params == [market |-> "m1", outcome |-> "yes", side |-> side,
                         price |-> price, size |-> size]
              l == NewProc(Len(procs) + 1, "caller", "call")
              st == Run(PlaceOrder([g |-> bot, l |-> l], params, "caller"))
          IN bot' = st.g /\ procs' = Append(procs, st.l)
    /\ UNCHANGED pureVars

CallRefreshPositions ==
    /\ Len(procs) < MaxCalls
    /\ Spawn([NewProc(Len(procs) + 1, "caller", "*getPositions") EXCEPT !.ret = "caller"])
    /\ UNCHANGED pureVars

NextOrder ==
    \/ CallBuyOrSell
    \/ CallRefreshPositions
    \/ RespondCreateOrder
    \/ RespondGetPositions

SpecOrder == Init /\ [][NextOrder]_vars

Callers == {i \in DOMAIN procs : procs[i].kind = "caller" /\ procs[i].ord # Null}

WithinBounds(params) ==
    /\ 10 <= Value(params.size) /\ Value(params.size) <= 1000000
    /\ 0 <= Value(params.price) /\ Value(params.price) <= 1000

\* C1: an order is accepted iff minOrderSize <= size <= maxOrderSize and
\* 0 <= price <= 1, the bounds included; a rejected order throws before any
\* network call: neither createOrder nor getPositions is requested for it.
C1_GateAcceptsIffWithinBounds ==
    \A i \in Callers :
        LET ord == procs[i].ord
        IN /\ (ord.gate = "ok") <=> WithinBounds(ord.params)
           /\ ~WithinBounds(ord.params) =>
                /\ ord.calls = << >>
                /\ ord.result = "threw"
                /\ procs[i].result = "threw"
           /\ WithinBounds(ord.params) =>
                /\ ord.calls # << >>
                /\ ord.calls[1] = "createOrder"

\* an order at the least size and the highest price is on its way to the
\* exchange, one just below the least size was thrown out
C1_Witness ==
    \E i, j \in Callers :
        /\ Value(procs[i].ord.params.size) = 10
        /\ Value(procs[i].ord.params.price) = 1000
        /\ procs[i].pc = "*createOrder"
        /\ Value(procs[j].ord.params.size) = 9
        /\ procs[j].result = "threw"
        /\ procs[j].ord.calls = << >>

\* C5, as claimed: every accepted order is followed by a positions fetch,
\* whatever the outcome of the order-creation call.
C5_RefreshWhateverTheOutcome ==
    \A i \in Callers :
        (procs[i].ord.gate = "ok" /\ procs[i].pc = "done") =>
            Has(procs[i].ord.calls, "getPositions")

\* C5, amended: every accepted order is forwarded to createOrder; when that call
\* succeeds a positions fetch is issued right after it, and when it fails
\* placeOrder throws without a positions fetch.
C5_RefreshAfterCreatedOrder ==
    \A i \in Callers :
        LET ord == procs[i].ord
        IN ord.gate = "ok" =>
            /\ ord.calls[1] = "createOrder"
            /\ procs[i].pc = "*createOrder" => ord.calls = <<"createOrder">>
            /\ procs[i].pc # "*createOrder" =>
                 IF ord.response = Fail
                 THEN ord.calls = <<"createOrder">> /\ procs[i].result = "threw"
                 ELSE ord.calls = <<"createOrder", "getPositions">>

\* an order was created and the ledger was refreshed from the fetch after it
C5_Witness ==
    \E i \in Callers :
        /\ procs[i].pc = "done"
        /\ procs[i].ord.response \in OrderResponses
        /\ procs[i].ord.calls = <<"createOrder", "getPositions">>
        /\ procs[i].result = "returned"
        /\ DOMAIN bot.positions = {"m1-yes"}

-----------------------------------------------------------------------------
(* The CopyTradingBot: start(), stop() and the ticks of its interval timer *)

MaxPolls == 2

Trade(id, outcome, side, price, size, timestamp, taker, maker) ==
    [id |-> id, market |-> "m1", outcome |-> outcome, side |-> side,
     price |-> price, size |-> size, timestamp |-> timestamp,
     taker |-> taker, maker |-> maker]

\* ten trades the trader took within the last week: a win-rate of 0.60
TradeHistory == [i \in 1..10 |-> Trade(i, "yes", "buy", D(40, 2), D(50, 0), 4, "T", "X")]

\* what api.getTrades may answer, in no particular order: the history alone; two
\* trades of it; the history with a large buy the trader took and a sell the
\* trader made; the history with a small sell and a buy at 0.995 the trader took
TradeFeeds ==
    {Body(TradeHistory),
     Body(SubSeq(TradeHistory, 1, 2)),
     Body(<<Trade(11, "yes", "buy", D(40, 2), D(150, 0), 6, "T", "X")>>
          \o TradeHistory
          \o <<Trade(12, "yes", "sell", D(50, 2), D(30, 0), 7, "X", "T")>>),
     Body(TradeHistory
          \o <<Trade(13, "no", "sell", D(40, 2), D(8, 0), 8, "T", "X"),
               Trade(14, "yes", "buy", D(995, 3), D(50, 0), 9, "T", "X")>>)}

RespondTraderPositions ==
    \E i \in DOMAIN procs, resp \in PositionLists \cup {Fail} :
        /\ procs[i].pc = "*getPositions (trader)"
        /\ Resume(i, OnTraderPositions(At(i), resp))
        /\ UNCHANGED pureVars

RespondTradesMarkets ==
    \E i \in DOMAIN procs, resp \in MarketLists \cup {Fail} :
        /\ procs[i].pc = "*getMarkets (trades)"
        /\ Resume(i, OnTradesMarkets(At(i), resp))
        /\ UNCHANGED pureVars

RespondGetTrades ==
    \E i \in DOMAIN procs, resp \in TradeFeeds \cup {Fail} :
        /\ procs[i].pc = "*getTrades"
        /\ Resume(i, OnGetTrades(At(i), resp))
        /\ UNCHANGED pureVars

InitCopy ==
    /\ bot = NewCopyBot
    /\ procs = << >>
    /\ fnName = "none" /\ fnIn = Null /\ fnOut = Null

\* main() calls start() once
StartCopyCall ==
    /\ Count("start") = 0
    /\ Spawn(NewProc(Len(procs) + 1, "start", "copy start"))
    /\ UNCHANGED pureVars

StopCopyCall ==
    /\ bot.isRunning
    /\ bot' = StopBot(bot)
    /\ UNCHANGED <<procs, pureVars>>

PollFire ==
    /\ bot.liveTimers # {}
    /\ Count("tick") < MaxPolls
    /\ Spawn(NewProc(Len(procs) + 1, "tick", "monitor"))
    /\ UNCHANGED pureVars

NextCopy ==
    \/ StartCopyCall
    \/ StopCopyCall
    \/ PollFire
    \/ RespondTraderPositions
    \/ RespondTradesMarkets
    \/ RespondGetTrades
    \/ RespondCreateOrder
    \/ RespondGetPositions

SpecCopy == InitCopy /\ [][NextCopy]_vars

\* the orders processTraderTrade has handed to placeOrder, each with its trade
Copied == UNION {Range(procs[i].copied) : i \in DOMAIN procs}
MakerOnly(trade, traderAddress) ==
    trade.maker = traderAddress /\ trade.taker # traderAddress

\* C8: every order the copy bot hands to placeOrder copies a trade whose taker
\* is the followed trader it was found for: a trade in which that trader is the
\* maker only is never copied, at any win-rate
C8_MirrorsTakerTradesOnly ==
    \A c \in Copied :
        /\ c.trade.taker = c.trader
        /\ ~MakerOnly(c.trade, c.trader)

\* a tick has been through a new trade its trader made and placed no order for
\* it, and awaits the order that copies the next trade, which the trader took
C8_Witness ==
    \E i \in Ticks :
        /\ procs[i].pc = "*createOrder"
        /\ procs[i].nj = 2
        /\ MakerOnly(procs[i].newTrades[1], procs[i].trader)
        /\ Len(procs[i].copied) = 1
        /\ procs[i].copied[1].trade = procs[i].newTrades[2]
        /\ procs[i].copied[1].winRate >= minConfidence

\* C9: a mirrored order has the trade's market, outcome and side, the smaller
\* of the trade's size and the copy cap as its size, and the trade's price plus
\* (buy) or minus (sell) the default slippage as its price; it is what the
\* Order Gate is given
C9_MirroredOrder ==
    /\ \A c \in Copied :
          /\ c.params.market = c.trade.market
          /\ c.params.outcome = c.trade.outcome
          /\ c.params.side = c.trade.side
          /\ Value(c.params.size) = Min(Value(c.trade.size), copyMaxPositionSize)
          /\ Value(c.params.price) =
                 IF c.trade.side = "buy" THEN Value(c.trade.price) + defaultSlippage
                                         ELSE Value(c.trade.price) - defaultSlippage
    /\ \A i \in Ticks :
          procs[i].pc \in {"*createOrder", "*getPositions"} =>
              /\ procs[i].ord.params = procs[i].copied[Len(procs[i].copied)].params
              /\ procs[i].ord.gate = OrderGate(procs[i].ord.params)

\* a buy at 0.40 of size 150 was copied as a buy at 0.41 of size 100, a sell at
\* 0.40 of size 8 as a sell at 0.39 of size 8
C9_Witness ==
    /\ \E c \in Copied :
          /\ c.trade.side = "buy" /\ c.trade.price = D(40, 2) /\ c.trade.size = D(150, 0)
          /\ c.params = [market |-> "m1", outcome |-> "yes", side |-> "buy",
                         price |-> D(41, 2), size |-> D(100, 0)]
    /\ \E c \in Copied :
          /\ c.trade.side = "sell" /\ c.trade.price = D(40, 2) /\ c.trade.size = D(8, 0)
          /\ c.params = [market |-> "m1", outcome |-> "no", side |-> "sell",
                         price |-> D(39, 2), size |-> D(8, 0)]

\* C11: every order the copy bot handed to placeOrder copies a trade of a trader
\* whose stored win-rate was at least copyTrading.minConfidence when the trade
\* was processed; a trade processed at a lower win-rate is let go
C11_NoCopyBelowConfidence ==
    /\ \A c \in Copied : c.winRate >= minConfidence
    /\ \A i \in Ticks :
          Len(procs[i].copied) =
              Cardinality({k \in DOMAIN procs[i].trace : procs[i].trace[k] = "order"})

\* the stored win-rate was 0.52 when a poll found a buy the trader took: the
\* poll let its new trades go and has ended without an order
C11_Witness ==
    \E i \in Ticks :
        /\ procs[i].pc = "done"
        /\ procs[i].trace = <<"low confidence", "low confidence">>
        /\ procs[i].copied = << >>
        /\ \E a \in DOMAIN bot.activities : bot.activities[a].totalTrades = 12

LedgerFull(g) == Cardinality(DOMAIN g.positions) >= maxPositions

\* poll i issues the createOrder request of a mirrored order in this step
IssuesMirroredOrder(i) ==
    /\ procs'[i].kind = "tick"
    /\ procs'[i].pc = "*createOrder"
    /\ i \in DOMAIN procs => Len(procs'[i].copied) > Len(procs[i].copied)

\* C12: whenever a poll issues the createOrder request of a mirrored order, the
\* Position Ledger holds fewer than maxPositions entries at that moment: the cap
\* test and the request are in one step of the poll, whatever the other polls do
C12_CapHoldsAtSubmission ==
    [][\A i \in DOMAIN procs' : IssuesMirroredOrder(i) => ~LedgerFull(bot')]_vars

\* a poll met a full ledger, filled by the refresh of an order, and let a trade
\* the trader took go
C12_Witness ==
    \E i \in Ticks :
        /\ \E k \in DOMAIN procs[i].trace : procs[i].trace[k] = "capped"
        /\ LedgerFull(bot)

\* tick i issues the createOrder request of the given leg in this step
IssuesLeg(i, leg) ==
    /\ procs'[i].kind = "tick"
    /\ procs'[i].pc = "*createOrder"
    /\ procs'[i].trace # << >>
    /\ procs'[i].trace[Len(procs'[i].trace)] = leg
    /\ i \in DOMAIN procs => procs'[i].trace # procs[i].trace

\* C13 as stated: whenever the arbitrage bot issues the createOrder request of a
\* buy leg or of a sell leg, the Position Ledger holds fewer than maxPositions
\* entries at that moment
C13_CapHoldsAtEveryLeg ==
    [][\A i \in DOMAIN procs' :
          IssuesLeg(i, "buy") \/ IssuesLeg(i, "sell") => ~LedgerFull(bot')]_vars

\* C13, amended: whenever the arbitrage bot issues the createOrder request of a
\* buy leg, the Position Ledger holds fewer than maxPositions entries at that
\* moment; the sell leg is issued with no test of the position count
C13_CapHoldsAtBuyLeg ==
    [][\A i \in DOMAIN procs' : IssuesLeg(i, "buy") => ~LedgerFull(bot')]_vars

\* the refresh after the buy leg filled the ledger, and the sell leg's request
\* is out
C13_Witness ==
    \E i \in Ticks :
        /\ procs[i].pc = "*createOrder"
        /\ procs[i].trace = <<"mark", "buy", "buy ok", "sell">>
        /\ LedgerFull(bot)

Markets == {"m1", "m2"}
Outcomes == {"yes", "no"}
Fetched(market, outcome) ==
    {p \in Range(bot.lastFetch) : p.market = market /\ p.outcome = outcome}

\* C14: in every state the ledger holds exactly the positions of the fetch of
\* the refresh completed last, nothing older and nothing missing, so no
\* activation sees the ledger of a refresh half done; getPosition returns the
\* cached entry of the pair, or undefined when the fetch had none
C14_LedgerIsLastFetch ==
    /\ bot.positions = SetAll(EmptyMap, bot.lastFetch)
    /\ DOMAIN bot.positions = {Key(p.market, p.outcome) : p \in Range(bot.lastFetch)}
    /\ \A market \in Markets, outcome \in Outcomes :
          IF Fetched(market, outcome) = {}
          THEN GetPosition(bot, market, outcome) = Null
          ELSE GetPosition(bot, market, outcome) \in Fetched(market, outcome)

\* a refresh has returned, another one is awaiting its fetch, and the ledger
\* is the one position of the fetch completed last
C14_Witness ==
    /\ bot.lastFetch = <<Pos("m1", "yes")>>
    /\ GetPosition(bot, "m1", "yes") = Pos("m1", "yes")
    /\ GetPosition(bot, "m2", "no") = Null
    /\ \E i, j \in DOMAIN procs :
          /\ procs[i].kind = "caller" /\ procs[i].ord = Null
          /\ procs[i].pc = "done" /\ procs[i].result = "returned"
          /\ procs[j].pc = "*getPositions"

-----------------------------------------------------------------------------
(* Either bot *)

IsArbitrageBot == "activeOpportunities" \in DOMAIN bot

InitBots ==
    /\ bot \in {NewBot, NewCopyBot}
    /\ procs = << >>
    /\ fnName = "none" /\ fnIn = Null /\ fnOut = Null

NextBots ==
    \/ IsArbitrageBot /\ Next
    \/ ~IsArbitrageBot /\ NextCopy

SpecBots == InitBots /\ [][NextBots]_vars

\* activation i is a tick that begins in this step
Begins(i) == i \notin DOMAIN procs /\ procs'[i].kind = "tick"

\* C15: a tick that begins while the bot is stopped ends at once, with no
\* request out and no field of the bot touched; stop() clears the timer handle
\* and leaves the activations in progress as they are
C15_NoTickWorksAfterStop ==
    [][/\ \A i \in DOMAIN procs' :
             Begins(i) /\ ~bot.isRunning =>
                 /\ procs'[i].pc = "done"
                 /\ procs'[i].copied = << >> /\ procs'[i].trace = << >>
                 /\ bot' = bot
       /\ bot.isRunning /\ ~bot'.isRunning =>
             /\ procs' = procs
             /\ bot'.liveTimers = bot.liveTimers \ {bot.interval}]_vars

\* the bot is stopped and its timer cleared, and a poll that began before the
\* stop has handed an order to placeOrder after it and awaits its creation
C15_Witness ==
    /\ ~bot.isRunning
    /\ bot.liveTimers = {}
    /\ \E i \in Ticks :
          /\ procs[i].ran
          /\ procs[i].pc = "*createOrder"
          /\ procs[i].copied # << >>
          /\ ~procs[i].copied[Len(procs[i].copied)].running

\* what became of a trade: one note for each trade gone through
Notes(i) == Len(procs[i].trace)

-----------------------------------------------------------------------------
(* PolymarketAPI: the request methods over the axios client *)

MaxAnswers == 2

Methods == {"getMarkets", "getMarket", "getOrderBook", "getTrades", "getAccount",
            "getPositions", "createOrder", "cancelOrder", "getOrder"}

\* what the exchange answers a request with: a response with its data, or an
\* error (the request timed out, the status was not 2xx)
HttpResponse(data) == [tag |-> "response", data |-> [body |-> data]]
HttpError(message) == [tag |-> "error", message |-> message]
Answers == {HttpResponse("a"), HttpResponse("b"), HttpError("timeout"), HttpError("status 500")}

\* the response interceptor: a response goes through, an error is logged and
\* rejected again as it is
Intercept(answer) == answer

\* a method that asks once more when its request fails
ApiCallRetrying(method, answers) ==
    LET first == Intercept(answers[1])
        again == Len(answers) > 1 /\ first.tag = "error"
        got == IF again THEN Intercept(answers[2]) ELSE first
        requests == IF again THEN 2 ELSE 1
    IN IF got.tag = "error"
       THEN [requests |-> requests, outcome |-> "threw", value |-> got]
       ELSE IF method = "cancelOrder"
       THEN [requests |-> requests, outcome |-> "returned", value |-> Null]
       ELSE [requests |-> requests, outcome |-> "returned", value |-> got.data]

\* a request method: answers[k] is what the exchange would answer the k-th
\* request of the call with
ApiCall(method, answers) ==
    LET got == Intercept(answers[1])
    IN IF got.tag = "error"
       THEN [requests |-> 1, outcome |-> "threw", value |-> got]
       ELSE IF method = "cancelOrder"
       THEN [requests |-> 1, outcome |-> "returned", value |-> Null]
       ELSE [requests |-> 1, outcome |-> "returned", value |-> got.data]

AnswerSeqs == UNION {[1..n -> Answers] : n \in 1..MaxAnswers}

InitApi ==
    /\ bot = Null /\ procs = << >>
    /\ fnName = "none"
    /\ fnIn \in [method : Methods, answers : AnswerSeqs]
    /\ fnOut = Null

CallApi ==
    /\ fnName = "none"
    /\ fnName' = fnIn.method
    /\ fnOut' = ApiCall(fnIn.method, fnIn.answers)
    /\ UNCHANGED <<fnIn, botVars>>

NextApi == CallApi

SpecApi == InitApi /\ [][NextApi]_vars

Called == fnName \in Methods
ClaimedMethods == Methods \ {"getMarket"}

-----------------------------------------------------------------------------
(* index.ts: the process from its start to its exit.  In this specification *)
(* bot holds the state of the process and procs stays empty.                *)

\* process.env: ACCOUNT_ADDRESS, COPY_TRADING_ENABLED, ARBITRAGE_ENABLED
Environments ==
    [accountAddress : {"", "0xA", "0xB"}, copyEnabled : BOOLEAN, arbEnabled : BOOLEAN]

\* how a call of a bot may end.  CopyTradingBot.start catches every error of its
\* initialisation; ArbitrageBot.start lets the error of loadMarkets through;
\* neither stop() has a statement that throws
StartOutcomes(kind) ==
    IF kind = "copy" THEN {"returned"} ELSE {"returned", "threw: timeout", "threw: status 500"}
StopOutcomes(kind) == {"returned"}

Signals == {"SIGINT", "SIGTERM", "uncaughtException"}

NewProcess(env) ==
    [env |-> env,
     pc |-> "load",
     constructed |-> {},        \* the bots made by new
     started |-> {},            \* the bots whose start() has returned
     stopped |-> {},            \* the bots whose stop() has returned
     network |-> FALSE,         \* a start() has been called: requests may be out
     exited |-> FALSE,
     exitCode |-> 0,
     signal |-> "",             \* what shutdown() was called with
     log |-> ""]                \* the error or warning logged last

\* process.exit(code), after the error or warning logged before it, if any
Exit(p, code, message) ==
    [p EXCEPT !.exited = TRUE,
              !.exitCode = code,
              !.log = IF message = "" THEN @ ELSE message,
              !.pc = "exited"]

\* main() from the start of a bot on: the copy bot first, then the arbitrage bot
MainFrom(p, kind) ==
    IF kind = "copy" /\ "copy" \in p.constructed
    THEN [p EXCEPT !.network = TRUE, !.pc = "*copy.start"]
    ELSE IF "arb" \in p.constructed
    THEN [p EXCEPT !.network = TRUE, !.pc = "*arb.start"]
    ELSE IF p.constructed = {}
    THEN Exit(p, 1, "No bots are enabled")
    ELSE [p EXCEPT !.pc = "running"]

\* the module's top level up to the first await of main()
LoadModule(p) ==
    IF p.env.accountAddress = ""
    THEN Exit(p, 1, "ACCOUNT_ADDRESS environment variable is required")
    ELSE LET constructed == (IF p.env.copyEnabled THEN {"copy"} ELSE {})
                              \cup (IF p.env.arbEnabled THEN {"arb"} ELSE {})
         IN MainFrom([p EXCEPT !.constructed = constructed], "copy")

\* a main() that logs the failure of a start() and goes on
OnStartKeepsRunning(p, kind, outcome) ==
    IF outcome # "returned"
    THEN [p EXCEPT !.log = "Failed to start bots", !.pc = "running"]
    ELSE IF kind = "copy"
    THEN MainFrom([p EXCEPT !.started = @ \cup {"copy"}], "arb")
    ELSE [p EXCEPT !.started = @ \cup {"arb"}, !.pc = "running"]

\* main() after the start() it awaited
OnStart(p, kind, outcome) ==
    IF outcome # "returned"
    THEN Exit(p, 1, "Failed to start bots")
    ELSE IF kind = "copy"
    THEN MainFrom([p EXCEPT !.started = @ \cup {"copy"}], "arb")
    ELSE [p EXCEPT !.started = @ \cup {"arb"}, !.pc = "running"]

\* shutdown(signal): stop() of the copy bot, then of the arbitrage bot
Shutdown(p, copyStop, arbStop) ==
    IF "copy" \in p.constructed /\ copyStop # "returned"
    THEN Exit(p, 1, "Error during shutdown")
    ELSE LET q == IF "copy" \in p.constructed
                  THEN [p EXCEPT !.stopped = @ \cup {"copy"}] ELSE p
         IN IF "arb" \in q.constructed /\ arbStop # "returned"
            THEN Exit(q, 1, "Error during shutdown")
            ELSE Exit(IF "arb" \in q.constructed
                      THEN [q EXCEPT !.stopped = @ \cup {"arb"}] ELSE q,
                      0, "")

InitMain ==
    /\ bot \in {NewProcess(env) : env \in Environments}
    /\ procs = << >>
    /\ fnName = "none" /\ fnIn = Null /\ fnOut = Null

Load ==
    /\ bot.pc = "load"
    /\ bot' = LoadModule(bot)
    /\ UNCHANGED <<procs, pureVars>>

StartSettles ==
    /\ bot.pc \in {"*copy.start", "*arb.start"}
    /\ LET kind == IF bot.pc = "*copy.start" THEN "copy" ELSE "arb"
       IN \E outcome \in StartOutcomes(kind) : bot' = OnStart(bot, kind, outcome)
    /\ UNCHANGED <<procs, pureVars>>

Signal ==
    /\ bot.pc \notin {"load", "exited"}
    /\ \E signal \in Signals, copyStop \in StopOutcomes("copy"), arbStop \in StopOutcomes("arb") :
          bot' = Shutdown([bot EXCEPT !.signal = signal,
                                      !.log = IF signal = "uncaughtException"
                                              THEN "Uncaught exception" ELSE @],
                          copyStop, arbStop)
    /\ UNCHANGED <<procs, pureVars>>

\* the unhandledRejection handler logs and does nothing else
UnhandledRejection ==
    /\ bot.pc \notin {"load", "exited"}
    /\ bot' = [bot EXCEPT !.log = "Unhandled rejection"]
    /\ UNCHANGED <<procs, pureVars>>

NextMain == Load \/ StartSettles \/ Signal \/ UnhandledRejection

SpecMain == InitMain /\ [][NextMain]_vars

Enabled(p) == (IF p.env.copyEnabled THEN {"copy"} ELSE {})
                  \cup (IF p.env.arbEnabled THEN {"arb"} ELSE {})

\* C18: a process without account address has exited with code 1 once its
\* module is loaded, with no bot made and no start() called; a process that
\* logged the failure of a start() or of a stop() has exited with code 1; a
\* process that exited with code 0 was shut down and every enabled bot's
\* stop() has returned
C18_ExitCodes ==
    /\ bot.env.accountAddress = "" /\ bot.pc # "load" =>
          /\ bot.exited /\ bot.exitCode = 1
          /\ bot.constructed = {} /\ ~bot.network
    /\ bot.log \in {"Failed to start bots", "Error during shutdown"} =>
          bot.exited /\ bot.exitCode = 1
    /\ bot.exited /\ bot.exitCode = 0 =>
          /\ bot.signal \in Signals
          /\ bot.constructed = Enabled(bot)
          /\ bot.stopped = Enabled(bot)
    /\ bot.exited => bot.exitCode \in {0, 1}

\* both bots enabled: the copy bot started, the start of the arbitrage bot
\* failed, and the process exited with code 1 with no bot stopped
C18_Witness ==
    /\ bot.env = [accountAddress |-> "0xA", copyEnabled |-> TRUE, arbEnabled |-> TRUE]
    /\ bot.started = {"copy"}
    /\ bot.log = "Failed to start bots"
    /\ bot.exited /\ bot.exitCode = 1
    /\ bot.stopped = {}

-----------------------------------------------------------------------------
(* PolymarketAPI: the WebSocket of the push updates.  In this specification *)
(* bot holds the state of one PolymarketAPI object and procs stays empty.   *)

MaxSockets == 3
MaxListeners == 2

\* a WebSocket object: its readyState, its message listeners, and how many
\* reconnections its close handler has scheduled
NewSocket == [readyState |-> "CONNECTING", listeners |-> 0, scheduled |-> 0]

NewApi ==
    [sockets |-> << >>,         \* every WebSocket made so far
     wsConnection |-> 0,        \* this.wsConnection: an index of sockets, 0 undefined
     timers |-> 0,              \* the setTimeout(connectWebSocket, 5000) pending
     sent |-> FALSE,            \* a subscribe message has been sent
     subs |-> << >>]            \* the subscribeToMarket calls made: the market, whether
                                \* the message was sent, the socket of the listener

\* connectWebSocket
ConnectWebSocket(a) ==
    [a EXCEPT !.sockets = Append(@, NewSocket), !.wsConnection = Len(a.sockets) + 1]

IsOpen(a) == a.wsConnection # 0 /\ a.sockets[a.wsConnection].readyState = "OPEN"

\* the channel of a market: `market:${marketId}`
Channel(marketId) == <<"market", marketId>>

\* subscribeToMarket
SubscribeToMarket(a, marketId) ==
    LET b == IF ~IsOpen(a) THEN ConnectWebSocket(a) ELSE a
        c == IF IsOpen(b) THEN [b EXCEPT !.sent = TRUE] ELSE b
        sub == [marketId |-> marketId, sent |-> IsOpen(b), socket |-> c.wsConnection]
    IN IF c.wsConnection # 0
       THEN [c EXCEPT !.sockets[c.wsConnection].listeners = @ + 1,
                      !.subs = Append(@, sub)]
       ELSE [c EXCEPT !.subs = Append(@, sub)]

\* the message listeners of socket i: the calls whose callback is invoked for
\* an inbound message of this channel
OnMessage(a, i, channel) ==
    {k \in DOMAIN a.subs :
        a.subs[k].socket = i /\ channel = Channel(a.subs[k].marketId)}

\* the close handler set by connectWebSocket
OnClose(a, i) ==
    [a EXCEPT !.sockets[i].readyState = "CLOSED",
              !.sockets[i].scheduled = @ + 1,
              !.timers = @ + 1]

\* disconnectWebSocket
DisconnectWebSocket(a) ==
    IF a.wsConnection = 0 THEN a
    ELSE [a EXCEPT !.sockets[a.wsConnection].readyState =
                       IF @ = "CLOSED" THEN @ ELSE "CLOSING",
                   !.wsConnection = 0]

MarketIds == {"m1", "m2"}

InitWs ==
    /\ bot = NewApi
    /\ procs = << >>
    /\ fnName = "none" /\ fnIn = Null /\ fnOut = Null

Subscribe ==
    /\ IsOpen(bot) \/ Len(bot.sockets) < MaxSockets
    /\ \A i \in DOMAIN bot.sockets : bot.sockets[i].listeners < MaxListeners
    /\ \E marketId \in MarketIds : bot' = SubscribeToMarket(bot, marketId)
    /\ UNCHANGED <<procs, pureVars>>

SocketOpens ==
    \E i \in DOMAIN bot.sockets :
        /\ bot.sockets[i].readyState = "CONNECTING"
        /\ bot' = [bot EXCEPT !.sockets[i].readyState = "OPEN"]
        /\ UNCHANGED <<procs, pureVars>>

\* the connection fails, is closed by the server, or finishes closing
SocketCloses ==
    \E i \in DOMAIN bot.sockets :
        /\ bot.sockets[i].readyState # "CLOSED"
        /\ bot' = OnClose(bot, i)
        /\ UNCHANGED <<procs, pureVars>>

ReconnectFires ==
    /\ bot.timers > 0
    /\ Len(bot.sockets) < MaxSockets
    /\ bot' = ConnectWebSocket([bot EXCEPT !.timers = @ - 1])
    /\ UNCHANGED <<procs, pureVars>>

Disconnect ==
    /\ bot.wsConnection # 0
    /\ bot' = DisconnectWebSocket(bot)
    /\ UNCHANGED <<procs, pureVars>>

\* a message arrives on an open socket
SocketMessage ==
    \E i \in DOMAIN bot.sockets, marketId \in MarketIds :
        /\ bot.sockets[i].readyState = "OPEN"
        /\ fnName' = "message"
        /\ fnIn' = [socket |-> i, channel |-> Channel(marketId), calls |-> Len(bot.subs)]
        /\ fnOut' = [invoked |-> OnMessage(bot, i, Channel(marketId))]
        /\ UNCHANGED <<bot, procs>>

NextWs ==
    \/ Subscribe \/ SocketOpens \/ SocketCloses \/ ReconnectFires \/ Disconnect
    \/ SocketMessage

SpecWs == InitWs /\ [][NextWs]_vars

LiveOrPending ==
    {i \in DOMAIN bot.sockets : bot.sockets[i].readyState \in {"CONNECTING", "OPEN"}}

\* C19 as stated: every connection that has closed has scheduled exactly one
\* reconnection, and at most one connection is open or being opened at a time
C19_OneReconnectOneConnection ==
    /\ \A i \in DOMAIN bot.sockets :
          bot.sockets[i].scheduled = IF bot.sockets[i].readyState = "CLOSED" THEN 1 ELSE 0
    /\ Cardinality(LiveOrPending) <= 1

\* the mirrored orders whose createOrder request was issued: (poll, position)
Submitted ==
    UNION {{<<i, k>> : k \in {n \in DOMAIN procs[i].copied :
                                  OrderGate(procs[i].copied[n].params) = "ok"}} :
           i \in Ticks}

\* C20 as stated: no trade has two mirrored orders submitted for it, by one
\* poll or by two
C20_EachTradeCopiedOnce ==
    \A x, y \in Submitted :
        x # y => procs[x[1]].copied[x[2]].trade.id # procs[y[1]].copied[y[2]].trade.id

-----------------------------------------------------------------------------
(* Either bot, its start() and stop() called any number of times, a call    *)
(* made while earlier ones are still awaiting.                              *)

MaxStarts == 2

StartAnyCall ==
    /\ Count("start") < MaxStarts
    /\ Spawn(NewProc(Len(procs) + 1, "start",
                     IF IsArbitrageBot THEN "start" ELSE "copy start"))
    /\ UNCHANGED pureVars

NextLife ==
    \/ StartAnyCall
    \/ StopCall
    \/ RespondGetMarkets
    \/ RespondTraderPositions
    \/ RespondTradesMarkets
    \/ RespondGetTrades

SpecLife == InitBots /\ [][NextLife]_vars

\* C21 as stated: the bot has at most one live interval timer, every live timer
\* is the one its handle holds, and the next stop() clears it
C21_OneTimerHeldInHandle ==
    /\ Cardinality(bot.liveTimers) <= 1
    /\ \A t \in bot.liveTimers : t = bot.interval
    /\ StopBot(bot).liveTimers = {}

-----------------------------------------------------------------------------
(* The copy bot's last-seen timestamps and win-rates, under SpecCopy *)

Starts == {i \in DOMAIN procs : procs[i].kind = "start"}
Timestamps(trades) == {trades[k].timestamp : k \in DOMAIN trades}
Newest(trades) == IF trades = << >> THEN 0 ELSE MaxOf(Timestamps(trades))

\* the trades found for a trader when start() made its activity record
FoundAtStart(a) ==
    UNION {Range(procs[i].polls[k].fetched) :
             <<i, k>> \in {x \in Starts \X (1..1) :
                              /\ x[2] \in DOMAIN procs[x[1]].polls
                              /\ procs[x[1]].polls[x[2]].trader = a}}

\* the fetch of checkTraderTrades that poll i made last
LastPoll(l) == l.polls[Len(l.polls)]
Ends(i) == i \in DOMAIN procs /\ procs[i].pc # "done" /\ procs'[i].pc = "done"

\* the new trades of a poll are the fetched trades above the last-seen value the
\* poll read, and only those are copied
CopiesOnlyNewTrades ==
    /\ \A i \in Ticks : \A k \in DOMAIN procs[i].polls :
          LET p == procs[i].polls[k]
          IN /\ \A t \in Range(p.found) : t.timestamp > p.since
             /\ \A t \in Range(p.fetched) :
                   t.timestamp <= p.since => t \notin Range(p.found)
    /\ \A i \in Ticks : \A c \in Range(procs[i].copied) :
          /\ \E k \in DOMAIN procs[i].polls :
                /\ c.trade \in Range(procs[i].polls[k].found)
                /\ c.trade.timestamp > procs[i].polls[k].since
          /\ c.trade \notin FoundAtStart(c.trader)

\* what a step does to the last-seen timestamps
LastSeenStep ==
    /\ \A a \in DOMAIN bot'.activities :
          IF a \in DOMAIN bot.activities
          THEN bot'.activities[a].lastTradeTime >= bot.activities[a].lastTradeTime
          ELSE \E i \in Starts :
                  bot'.activities[a].lastTradeTime = Newest(LastPoll(procs'[i]).fetched)
    /\ \A i \in Ticks :
          (Ends(i) /\ procs'[i].polls # << >> /\ LastPoll(procs'[i]).found # << >>) =>
              LET p == LastPoll(procs'[i])
                  a == bot.traderActivities[p.trader]
              IN /\ bot'.activities[a].lastTradeTime >= Newest(p.fetched)
                 /\ bot'.activities[a].lastTradeTime \in
                        {Newest(p.fetched), bot.activities[a].lastTradeTime}

\* C22: the last-seen timestamp of a trader starts as the newest timestamp found
\* at start (0 if none) and never decreases; the new trades of a poll are the
\* fetched trades with a timestamp above the last-seen value the poll read, and
\* only those are copied, so no trade found at start is ever copied; when a poll
\* that found new trades ends, last-seen is the newest timestamp observed
C22_LastSeenOnlyGrows == [](CopiesOnlyNewTrades) /\ [][LastSeenStep]_vars

\* start() found the ten trades of the history (last-seen 4); a poll found the
\* buy of timestamp 6 new, copied it and left last-seen at 7; a later poll read
\* 7 and found nothing new in the same feed
C22_Witness ==
    /\ \E a \in DOMAIN bot.activities : bot.activities[a].lastTradeTime = 7
    /\ \E i \in Starts : procs[i].polls # << >> /\ Len(procs[i].polls[1].fetched) = 10
    /\ \E i, j \in Ticks :
          /\ procs[i].pc = "done" /\ procs[j].pc = "done"
          /\ procs[i].polls # << >> /\ procs[j].polls # << >>
          /\ procs[i].polls[1].since = 4
          /\ \E c \in Range(procs[i].copied) : c.trade.timestamp = 6
          /\ procs[j].polls[1].since = 7
          /\ Len(procs[j].polls[1].fetched) = 12
          /\ procs[j].polls[1].found = << >>

\* C23 as stated: when a poll of a trader ends, the trader's stored win-rate is
\* the heuristic of the trades that poll fetched, whether it found new trades
\* among them or not
C23_WinRateOfEveryPoll ==
    [][\A i \in Ticks :
          (Ends(i) /\ procs'[i].polls # << >>) =>
              LET p == LastPoll(procs'[i])
                  a == bot'.traderActivities[p.trader]
              IN bot'.activities[a].winRate = CalculateWinRate(p.fetched, Now)]_vars

-----------------------------------------------------------------------------
(* No retry in the strategy loops, under SpecBots *)

Times(trace, e) == Cardinality({k \in DOMAIN trace : trace[k] = e})

\* the orders poll i hands to placeOrder in this step
HandsOver(i) ==
    {procs'[i].copied[k] :
        k \in {n \in DOMAIN procs'[i].copied :
                  i \in DOMAIN procs => n > Len(procs[i].copied)}}

\* no order is made for a trade whose order has been turned away or has failed
NoSecondOrderAfterFailure ==
    \A i \in DOMAIN procs' : \A new \in HandsOver(i) :
        \A c \in Copied : c.outcome = "threw" => c.trade.id # new.trade.id

\* each leg of an execution is attempted once
LegsOnce(ps) ==
    \A i \in DOMAIN ps :
        Times(ps[i].trace, "buy") <= 1 /\ Times(ps[i].trace, "sell") <= 1

\* C24 as stated: an order for a trade that the Order Gate turned away or that
\* failed at the exchange is followed by no other order for that trade, in the
\* same poll or in a later one; an execution of the arbitrage bot attempts each
\* of its legs once
C24_NoRetry == [][NoSecondOrderAfterFailure /\ LegsOnce(procs')]_vars

-----------------------------------------------------------------------------
(* Errors at the process level, under SpecMain *)

\* C25 as stated: once an uncaught exception or an unhandled rejection has been
\* logged, every bot that was made has been stopped and the process has exited,
\* as after SIGINT or SIGTERM
C25_UncaughtErrorsShutDown ==
    bot.log \in {"Uncaught exception", "Unhandled rejection"} =>
        bot.exited /\ bot.stopped = bot.constructed

-----------------------------------------------------------------------------
(* The Position Ledger alone: refreshPositions() called, calls overlapping, *)
(* the exchange answering with any positions.  Position.market and          *)
(* Position.outcome are strings of the exchange's choosing.  fnName, fnIn   *)
(* and fnOut record the request answered last: whose it was, what the       *)
(* answer was, and how the call ended.                                      *)

MaxFetched == 2

LedgerPositions == {Pos("m1", "yes"), Pos("m1-yes", "no"), Pos("m1", "yes-no")}
LedgerFeeds == {Body(list) : list \in SeqsUpTo(LedgerPositions, MaxFetched)}

RespondLedgerPositions ==
    \E i \in DOMAIN procs, resp \in LedgerFeeds \cup {Fail} :
        /\ procs[i].pc = "*getPositions"
        /\ Resume(i, OnGetPositions(At(i), resp))
        /\ fnName' = "getPositions"
        /\ fnIn' = [caller |-> i, tag |-> resp.tag]
        /\ fnOut' = [result |-> procs'[i].result]

NextLedger == CallRefreshPositions \/ RespondLedgerPositions

SpecLedger == Init /\ [][NextLedger]_vars

LedgerMarkets == {p.market : p \in LedgerPositions}
LedgerOutcomes == {p.outcome : p \in LedgerPositions}

\* C26 as stated: two fetched positions of different (market, outcome) pairs
\* have different ledger keys, and getPosition(m, o) returns nothing or a
\* position of market m and outcome o
C26_KeysUnique ==
    /\ \A p, q \in Range(bot.lastFetch) :
          <<p.market, p.outcome>> # <<q.market, q.outcome>> =>
              Key(p.market, p.outcome) # Key(q.market, q.outcome)
    /\ \A market \in LedgerMarkets, outcome \in LedgerOutcomes :
          LET position == GetPosition(bot, market, outcome)
          IN position # Null => position.market = market /\ position.outcome = outcome

\* C27: when the exchange answers the fetch of a refreshPositions with an error,
\* the call ends by throwing and the bot, its ledger included, is as it was
C27_FailedFetchLeavesLedger ==
    [][\A i \in DOMAIN procs :
          (/\ procs[i].pc = "*getPositions" /\ procs'[i].pc # "*getPositions"
           /\ fnIn'.tag = "error") =>
              /\ fnIn'.caller = i
              /\ procs'[i].pc = "done" /\ procs'[i].result = "threw"
              /\ fnOut'.result = "threw"
              /\ bot'.positions = bot.positions
              /\ bot' = bot]_vars

\* a refresh filled the ledger with two positions, the fetch of the next one
\* failed: that call threw and the two positions are still there
C27_Witness ==
    /\ fnName = "getPositions" /\ fnIn.tag = "error"
    /\ procs[fnIn.caller].result = "threw"
    /\ Cardinality(DOMAIN bot.positions) = 2
    /\ \E i \in DOMAIN procs : procs[i].result = "returned"

-----------------------------------------------------------------------------
(* What placeOrder tells its caller, under SpecOrder *)

\* C28 as stated: a buy() or sell() whose createOrder request was answered with
\* an order response returns: it never ends by throwing
C28_CreatedOrderIsReturned ==
    \A i \in Callers :
        (procs[i].pc = "done" /\ procs[i].ord.response \in OrderResponses) =>
            procs[i].ord.result = "returned" /\ procs[i].result = "returned"

-----------------------------------------------------------------------------
(* The CopyTradingBot with its follow list changed while it runs: addTrader *)
(* of an address that is not configured, removeTrader of the configured one *)

Added == "U"
Removed == "T"

AddTraderCall ==
    /\ bot' = AddTrader(bot, Added)
    /\ UNCHANGED <<procs, pureVars>>

RemoveTraderCall ==
    /\ bot' = RemoveTrader(bot, Removed)
    /\ UNCHANGED <<procs, pureVars>>

NextFollow ==
    \/ NextCopy
    \/ AddTraderCall
    \/ RemoveTraderCall

SpecFollow == InitCopy /\ [][NextFollow]_vars

PolledTraders(l) == {l.polls[k].trader : k \in DOMAIN l.polls}

\* C29 as stated: a poll whose loop came to the added trader has fetched that
\* trader's trades and looked for new ones among them, as it does for a trader
\* configured at start
C29_AddedTraderIsPolled ==
    \A i \in Ticks :
        (procs[i].pc = "done" /\ Added \in procs[i].seen) =>
            Added \in PolledTraders(procs[i])

ActivitiesFollowed(g) == DOMAIN g.traderActivities \subseteq Range(g.followedTraders)

\* no order is handed over for a trade of a trader who is not followed
OrdersOfFollowedOnly ==
    \A i \in DOMAIN procs' : \A new \in HandsOver(i) :
        new.trader \in Range(bot.followedTraders)

\* C30 as stated: once removeTrader has taken an address off the follow list no
\* order is handed over for a trade of that address, by any poll; and every
\* trader with an activity record is on the follow list
C30_RemovedTraderIsGone ==
    [][OrdersOfFollowedOnly /\ ActivitiesFollowed(bot')]_vars

-----------------------------------------------------------------------------
(* The ArbitrageBot after a start() that failed, under SpecLife *)

StartInProgress == \E i \in Starts : procs[i].result = "pending"

\* C31 as stated: while no start() of the ArbitrageBot is in progress, isRunning
\* is true only if the bot has a live timer, so that a start() that threw has
\* left the bot not running
C31_RunningOnlyWithTimer ==
    IsArbitrageBot /\ ~StartInProgress => (bot.isRunning => bot.liveTimers # {})
-----------------------------------------------------------------------------
(* The push connection's subscriptions and its closing, under SpecWs *)

\* the subscribeToMarket calls made before the message now delivered
CallsBefore == 1 .. fnIn.calls

\* C32 as stated: once the connection a subscribeToMarket call was made on is
\* open its subscribe message has been sent, and an inbound message invokes
\* the callbacks of exactly the calls made for the market of its channel,
\* whichever connection it arrives on
C32_SubscribedAndDispatched ==
    /\ \A k \in DOMAIN bot.subs :
          bot.subs[k].socket # 0 /\ bot.sockets[bot.subs[k].socket].readyState = "OPEN" =>
              bot.subs[k].sent
    /\ fnName = "message" =>
          fnOut.invoked = {k \in CallsBefore : fnIn.channel = Channel(bot.subs[k].marketId)}

\* C33 as stated: a step in which a connection closed by disconnectWebSocket
\* finishes closing schedules no reconnection
C33_NoReconnectAfterDisconnect ==
    [][\A i \in DOMAIN bot.sockets :
          bot.sockets[i].readyState = "CLOSING" /\ bot'.sockets[i].readyState = "CLOSED" =>
              bot'.timers = bot.timers /\ bot'.sockets[i].scheduled = 0]_vars

====
